---- MODULE Spec2Model ----
(***************************************************************************)
(* A model of ag2-persona: PersonaAgent (persona_agent.py), the immediate  *)
(* builder PersonaBuilder (persona_builder.py) and the deferred builder    *)
(* AsyncPersonaBuilder (async_persona_builder.py).                         *)
(*                                                                         *)
(* Python values are modelled as follows.                                  *)
(*   - str | None            a TLA+ string; None is the sentinel NONE      *)
(*   - text built by f-strings (goal, description, messages)               *)
(*                           a sequence of string tokens, concatenated     *)
(*                           with \o; None is NoneText, "" is << >>        *)
(*   - multi-line text       a sequence of lines, each a token sequence    *)
(*   - a constraints value   [isList, items]: a list of strings, or a str  *)
(*                           (a non-list) whose items are its characters   *)
(*   - an llm_config value   [t, d]: None, False, True, or a dict d        *)
(*   - a dict                a function from string keys to string values  *)
(***************************************************************************)
EXTENDS Naturals, Sequences, FiniteSets, TLC

VARIABLES
    b,        \* the PersonaBuilder instance (immediate mode)
    ab,       \* the AsyncPersonaBuilder instance (deferred mode)
    steps,    \* AsyncPersonaBuilder._steps, the queue of recorded operations
    pc,       \* position of the running AsyncPersonaBuilder.build(): [i, awaiting],
              \* i = 0 when none is running, else the iteration of its loop
    pre,      \* the async builder's configuration when the running build() was called
    agent,    \* the PersonaAgent most recently constructed
    exported, \* the mapping most recently returned by PersonaAgent.to_dict(); its
              \* constraints and metadata are the agent's own list and dict
    restored, \* the PersonaAgent rebuilt from exported by the most recent round trip
    err,      \* the exception raised by the most recent call (kind "none": it returned)
    lastOp,   \* the most recent call
    arg,      \* what the most recent Markdown load was given
    given,    \* the arguments the agent was constructed with
    log,      \* the warnings logged by the most recent call
    parse,    \* the document given to parse_persona_markdown and what it returned
    builders, \* two more AsyncPersonaBuilder instances, each with its own caller, and
              \* the list objects their _steps refer to
    nops,     \* number of fluent calls made so far on the builder
    nbuilds   \* number of build() calls made so far on the AsyncPersonaBuilder

vars ==
    <<b, ab, steps, pc, pre, agent, exported, restored, err, lastOp, arg, given, log, parse,
      builders, nops, nbuilds>>

----------------------------------------------------------------------------
(* Bounds of the model *)

MaxOps == 2         \* fluent calls on the PersonaBuilder
MaxSteps == 2       \* fluent calls on the AsyncPersonaBuilder (the length of its queue)
MaxAgentOps == 3    \* calls on a constructed PersonaAgent
MaxBuilds == 2      \* build() calls on the AsyncPersonaBuilder

----------------------------------------------------------------------------
(* Python values *)

NONE == "<None>"
NoneText == <<NONE>>
EmptyDict == [k \in {} |-> ""]

\* Python truthiness of a str | None
TruthyStr(s) == s # NONE /\ s # ""
\* Python truthiness of a text (None and "" are falsy)
TruthyText(t) == t # NoneText /\ t # << >>
\* f"{s}" of a str | None, as text
Text(s) == IF s = "" THEN << >> ELSE <<s>>

\* Constraints values: a list of strings, or a str
CList(items) == [isList |-> TRUE, items |-> items]
CStr(chars) == [isList |-> FALSE, items |-> chars]
TruthySeq(c) == c.items # << >>
InSeq(x, s) == \E i \in 1..Len(s) : s[i] = x

\* llm_config values
LNone == [t |-> "none", d |-> EmptyDict]
LFalse == [t |-> "false", d |-> EmptyDict]
LTrue == [t |-> "true", d |-> EmptyDict]
LDict(d) == [t |-> "dict", d |-> d]
TruthyLlm(l) == l.t = "true" \/ (l.t = "dict" /\ DOMAIN l.d # {})

\* dict.update(other)
DictUpdate(d, other) ==
    [k \in DOMAIN d \cup DOMAIN other |-> IF k \in DOMAIN other THEN other[k] ELSE d[k]]

\* The outcome of a call
NoError == [kind |-> "none", msg |-> << >>]
Raise(kind, msg) == [kind |-> kind, msg |-> msg]

----------------------------------------------------------------------------
(* PersonaAgent (persona_agent.py) *)

NoAgent ==
    [exists |-> FALSE, persona_name |-> NONE, construction_complete |-> FALSE,
     role |-> NONE, goal |-> NoneText, backstory |-> NoneText,
     constraints |-> CList(<< >>), version |-> NONE, metadata |-> EmptyDict, description |-> NoneText,
     system_message |-> << >>, llm_config |-> LNone, human_input_mode |-> NONE,
     kwargs |-> EmptyDict, shares |-> {}]

\* A composition that writes the Constraints heading for an empty list too
PersonaAgent_build_system_message_heading_always(a) ==
    LET roleLines == << <<"# Role: ", a.role>> >>
        goalLines == << << >>, <<"## Goal">>, a.goal >>
        backLines == IF TruthyText(a.backstory)
                     THEN << << >>, <<"## Background">>, a.backstory >>
                     ELSE << >>
        consLines == << << >>, <<"## Constraints">> >> \o
                     [i \in 1..Len(a.constraints.items) |-> <<"- ", a.constraints.items[i]>>]
    IN roleLines \o goalLines \o backLines \o consLines

\* "\n".join(parts): one line per "\n"-separated piece of the parts
PersonaAgent_build_system_message(a) ==
    LET roleLines == << <<"# Role: ", a.role>> >>
        goalLines == << << >>, <<"## Goal">>, a.goal >>
        backLines == IF TruthyText(a.backstory)
                     THEN << << >>, <<"## Background">>, a.backstory >>
                     ELSE << >>
        consLines == IF TruthySeq(a.constraints)
                     THEN << << >>, <<"## Constraints">> >> \o
                          [i \in 1..Len(a.constraints.items) |-> <<"- ", a.constraints.items[i]>>]
                     ELSE << >>
    IN roleLines \o goalLines \o backLines \o consLines

\* ConversableAgent.update_system_message of the fallback base class
ConversableAgent_update_system_message(a, msg) == [a EXCEPT !.system_message = msg]

\* The arguments of a constructor call.  has_constraints, has_metadata and
\* has_llm_config tell whether the argument was passed (and is not None);
\* kwargs holds the other keyword arguments.
PersonaAgent_init(args) ==
    LET a0 == [NoAgent EXCEPT
                  !.exists = TRUE,
                  !.role = args.role, !.goal = args.goal, !.backstory = args.backstory,
                  !.constraints = IF args.has_constraints THEN args.constraints
                                  ELSE CList(<< >>),
                  !.version = args.version,
                  !.metadata = IF args.has_metadata THEN args.metadata ELSE EmptyDict,
                  !.persona_name = args.name,
                  !.construction_complete = FALSE]
        desc == IF args.description = NoneText
                THEN Text(args.role) \o <<": ">> \o args.goal
                ELSE args.description
        composed == PersonaAgent_build_system_message(a0)
        hasExtra == "system_message" \in DOMAIN args.kwargs
        message == IF hasExtra
                   THEN composed \o << << >>, <<"Additional Instructions:">>,
                                      <<args.kwargs["system_message"]>> >>
                   ELSE composed
        rest == [k \in DOMAIN args.kwargs \ {"system_message"} |-> args.kwargs[k]]
    IN [a0 EXCEPT
           !.description = desc,
           !.system_message = message,
           !.human_input_mode = IF "human_input_mode" \in DOMAIN rest
                                THEN rest["human_input_mode"] ELSE "TERMINATE",
           !.llm_config = IF args.has_llm_config THEN args.llm_config
                          ELSE LDict(EmptyDict),
           !.kwargs = rest,
           !.construction_complete = TRUE]

\* The constructor call PersonaAgent("A", "R", "G")
NoArgs ==
    [name |-> "A", role |-> "R", goal |-> <<"G">>, backstory |-> << >>,
     has_constraints |-> FALSE, constraints |-> CList(<< >>), description |-> NoneText,
     version |-> NONE, has_metadata |-> FALSE, metadata |-> EmptyDict,
     has_llm_config |-> FALSE, llm_config |-> LNone, kwargs |-> EmptyDict]

\* A setter without the _construction_complete guard
PersonaAgent_name_setter_unguarded(a, value) == <<[a EXCEPT !.persona_name = value], NoError>>

\* The name property's setter: [agent, error]
PersonaAgent_name_setter(a, value) ==
    IF a.construction_complete
    THEN <<a, Raise("AttributeError", << <<"PersonaAgent name is immutable after construction">> >>)>>
    ELSE <<[a EXCEPT !.persona_name = value], NoError>>

PersonaAgent_update_metadata(a, isDict, metadata) ==
    IF ~isDict
    THEN <<a, Raise("ValueError", << <<"Metadata must be a dictionary">> >>)>>
    ELSE <<[a EXCEPT !.metadata = DictUpdate(a.metadata, metadata)], NoError>>

\* An update_goal that stores the goal and leaves the rendered message alone
PersonaAgent_update_goal_no_render(a, new_goal) == [a EXCEPT !.goal = new_goal]

PersonaAgent_update_goal(a, new_goal) ==
    LET a1 == [a EXCEPT !.goal = new_goal]
    IN ConversableAgent_update_system_message(a1, PersonaAgent_build_system_message(a1))

\* A str has no append: adding to a non-list raises
PersonaAgent_add_constraint(a, constraint) ==
    IF InSeq(constraint, a.constraints.items)
    THEN <<a, NoError>>
    ELSE IF ~a.constraints.isList
    THEN <<a, Raise("AttributeError", << <<"'str' object has no attribute 'append'">> >>)>>
    ELSE LET a1 == [a EXCEPT !.constraints.items = Append(@, constraint)]
         IN <<ConversableAgent_update_system_message(a1, PersonaAgent_build_system_message(a1)),
              NoError>>

\* list.remove(x): removes the first occurrence
RemoveFirst(s, x) ==
    LET i == CHOOSE j \in 1..Len(s) : s[j] = x /\ \A k \in 1..(j - 1) : s[k] # x
    IN SubSeq(s, 1, i - 1) \o SubSeq(s, i + 1, Len(s))

PersonaAgent_remove_constraint(a, constraint) ==
    IF a.constraints.isList /\ InSeq(constraint, a.constraints.items)
    THEN LET a1 == [a EXCEPT !.constraints.items = RemoveFirst(@, constraint)]
         IN ConversableAgent_update_system_message(a1, PersonaAgent_build_system_message(a1))
    ELSE a

NoDict ==
    [exists |-> FALSE, name |-> NONE, role |-> NONE, goal |-> NoneText,
     backstory |-> NoneText, constraints |-> CList(<< >>), llm_config |-> LNone, version |-> NONE,
     metadata |-> EmptyDict]

PersonaAgent_to_dict(a) ==
    [exists |-> TRUE, name |-> a.persona_name, role |-> a.role, goal |-> a.goal,
     backstory |-> a.backstory, constraints |-> a.constraints,
     llm_config |-> a.llm_config, version |-> a.version, metadata |-> a.metadata]

----------------------------------------------------------------------------
(* PersonaMarkdownParser (parsers.py) *)

\* date.today().strftime("%Y-%m-%d")
TODAY == "<today>"

\* header_match.group(1).lower().replace(" ", "_") for the titles of the model
SectionKey(title) ==
    CASE title = "Backstory" -> "backstory"
      [] title = "Description" -> "description"
      [] title = "Role" -> "role"
      [] title = "Goal" -> "goal"
      [] title = "Constraints" -> "constraints"
      [] OTHER -> title

RECURSIVE LStrip(_)
LStrip(ls) == IF ls # << >> /\ Head(ls) = "" THEN LStrip(Tail(ls)) ELSE ls
RECURSIVE RStrip(_)
RStrip(ls) == IF ls # << >> /\ ls[Len(ls)] = "" THEN RStrip(SubSeq(ls, 1, Len(ls) - 1)) ELSE ls
RECURSIVE JoinLines(_)
JoinLines(ls) ==
    IF ls = << >> THEN << >>
    ELSE IF Len(ls) = 1 THEN Text(Head(ls))
    ELSE Text(Head(ls)) \o <<"\n">> \o JoinLines(Tail(ls))

\* sections[current_section] = "\n".join(current_content).strip()
SaveSection(sections, cur, content) ==
    IF cur # NONE /\ content # << >>
    THEN [k \in DOMAIN sections \cup {cur} |->
             IF k = cur THEN JoinLines(RStrip(LStrip(content))) ELSE sections[k]]
    ELSE sections

RECURSIVE ParseSectionsFrom(_, _, _, _, _)
ParseSectionsFrom(body, i, sections, cur, content) ==
    IF i > Len(body) THEN SaveSection(sections, cur, content)
    ELSE IF body[i].hdr
    THEN ParseSectionsFrom(body, i + 1, SaveSection(sections, cur, content),
                           SectionKey(body[i].s), << >>)
    ELSE IF cur # NONE
    THEN ParseSectionsFrom(body, i + 1, sections, cur, Append(content, body[i].s))
    ELSE ParseSectionsFrom(body, i + 1, sections, cur, content)

\* sections: a function from section keys to texts
PersonaMarkdownParser_parse_markdown_sections(body) ==
    ParseSectionsFrom(body, 1, [k \in {} |-> << >>], NONE, << >>)

SectionGet(sections, key) == IF key \in DOMAIN sections THEN sections[key] ELSE << >>

NoConfig ==
    [name |-> NONE, role |-> NONE, goal |-> NoneText, backstory |-> << >>,
     constraints |-> CList(<< >>), llm_config |-> LNone, description |-> NoneText,
     version |-> NONE, metadata |-> EmptyDict]

\* An _apply_constraints that falls back to the body's Constraints section
PersonaMarkdownParser_apply_constraints_from_body(doc, config) ==
    LET sections == PersonaMarkdownParser_parse_markdown_sections(doc.body)
    IN IF doc.has_constraints /\ ~doc.constraints.isList
       THEN <<config, Raise("ValueError",
                  << <<"Constraints in metadata must be a list, got ", "<class 'str'>">> >>)>>
       ELSE IF doc.has_constraints THEN <<[config EXCEPT !.constraints = doc.constraints], NoError>>
       ELSE IF "constraints" \in DOMAIN sections
       THEN <<[config EXCEPT !.constraints = CList(sections["constraints"])], NoError>>
       ELSE <<config, NoError>>

\* [config, error]
PersonaMarkdownParser_apply_constraints(doc, config) ==
    IF doc.has_constraints
    THEN IF doc.constraints.isList
         THEN <<[config EXCEPT !.constraints = doc.constraints], NoError>>
         ELSE <<config, Raise("ValueError",
                    << <<"Constraints in metadata must be a list, got ", "<class 'str'>">> >>)>>
    ELSE <<config, NoError>>

\* A _handle_version that defaults the version without logging anything
PersonaMarkdownParser_handle_version_silent(config) ==
    IF ~TruthyStr(config.version)
    THEN <<[config EXCEPT !.version = TODAY], << >> >>
    ELSE <<config, << >> >>

\* [config, warnings logged]
PersonaMarkdownParser_handle_version(config) ==
    IF ~TruthyStr(config.version)
    THEN <<[config EXCEPT !.version = TODAY],
           << <<"Version key missing for persona '", config.name,
                "'. Defaulting to today's date: ", TODAY>> >> >>
    ELSE <<config, << >> >>

\* A validation that raises on the first missing field
PersonaMarkdownParser_validate_required_fields_first(config) ==
    LET errors == IF ~TruthyStr(config.role)
                  THEN << <<"'role' is required in frontmatter">> >>
                  ELSE IF ~TruthyText(config.goal)
                  THEN << <<"'goal' is required in frontmatter">> >>
                  ELSE IF ~TruthyText(config.backstory)
                  THEN << <<"'# Backstory' section is required in markdown content">> >>
                  ELSE << >>
    IN IF errors # << >>
       THEN Raise("ValueError",
                  << <<"Required fields missing for persona '", config.name, "':">> >> \o
                  [i \in 1..Len(errors) |-> <<"  - ">> \o errors[i]])
       ELSE NoError

PersonaMarkdownParser_validate_required_fields(config) ==
    LET errors == (IF ~TruthyStr(config.role)
                   THEN << <<"'role' is required in frontmatter">> >> ELSE << >>)
               \o (IF ~TruthyText(config.goal)
                   THEN << <<"'goal' is required in frontmatter">> >> ELSE << >>)
               \o (IF ~TruthyText(config.backstory)
                   THEN << <<"'# Backstory' section is required in markdown content">> >>
                   ELSE << >>)
    IN IF errors # << >>
       THEN Raise("ValueError",
                  << <<"Required fields missing for persona '", config.name, "':">> >> \o
                  [i \in 1..Len(errors) |-> <<"  - ">> \o errors[i]])
       ELSE NoError

\* [config, error, warnings logged]
PersonaMarkdownParser_parse_persona_markdown(doc) ==
    IF ~doc.fm_ok
    THEN <<NoConfig, Raise("ValueError", << <<"Error parsing frontmatter: ">> >>), << >> >>
    ELSE
    LET sections == PersonaMarkdownParser_parse_markdown_sections(doc.body)
        sdesc == SectionGet(sections, "description")
        config0 == [name |-> doc.name, role |-> doc.role, goal |-> doc.goal,
                    backstory |-> SectionGet(sections, "backstory"),
                    constraints |-> CList(<< >>),
                    llm_config |-> doc.llm_config,
                    description |-> IF sdesc # << >> THEN sdesc ELSE doc.description,
                    version |-> doc.version,
                    metadata |-> doc.metadata]
        withCons == PersonaMarkdownParser_apply_constraints(doc, config0)
        withVer == PersonaMarkdownParser_handle_version(withCons[1])
        required == PersonaMarkdownParser_validate_required_fields(withVer[1])
    IN IF withCons[2].kind # "none" THEN <<NoConfig, withCons[2], << >> >>
       ELSE IF required.kind # "none" THEN <<NoConfig, required, withVer[2]>>
       ELSE <<withVer[1], NoError, withVer[2]>>

----------------------------------------------------------------------------
(* PersonaBuilder (persona_builder.py).  A fluent method is an operator    *)
(* from the builder to the pair <<builder afterwards, exception raised>>.  *)

PersonaBuilder_init(name) ==
    [name |-> name, role |-> NONE, goal |-> NoneText, backstory |-> << >>,
     constraints |-> CList(<< >>), llm_config |-> LNone, description |-> NoneText,
     version |-> NONE, metadata |-> EmptyDict, additional_kwargs |-> EmptyDict]

PersonaBuilder_set_name(s, name) == <<[s EXCEPT !.name = name], NoError>>
PersonaBuilder_role(s, role) == <<[s EXCEPT !.role = role], NoError>>
PersonaBuilder_goal(s, goal) == <<[s EXCEPT !.goal = goal], NoError>>
PersonaBuilder_backstory(s, backstory) == <<[s EXCEPT !.backstory = backstory], NoError>>

\* An add_constraint that appends a constraint the list already has
PersonaBuilder_add_constraint_again(s, constraint) ==
    IF constraint # ""
    THEN IF s.constraints.isList
         THEN <<[s EXCEPT !.constraints.items = Append(@, constraint)], NoError>>
         ELSE <<s, Raise("AttributeError", << <<"'str' object has no attribute 'append'">> >>)>>
    ELSE <<s, NoError>>

\* A str has no append: adding to a non-list raises
PersonaBuilder_add_constraint(s, constraint) ==
    IF constraint # "" /\ ~InSeq(constraint, s.constraints.items)
    THEN IF s.constraints.isList
         THEN <<[s EXCEPT !.constraints.items = Append(@, constraint)], NoError>>
         ELSE <<s, Raise("AttributeError", << <<"'str' object has no attribute 'append'">> >>)>>
    ELSE <<s, NoError>>

PersonaBuilder_constraints(s, constraints) == <<[s EXCEPT !.constraints = constraints], NoError>>
PersonaBuilder_llm_config(s, config) == <<[s EXCEPT !.llm_config = config], NoError>>

\* A temperature() that replaces the configuration by one with that key alone
PersonaBuilder_temperature_alone(s, temp) ==
    LET l0 == IF ~TruthyLlm(s.llm_config) THEN LDict(EmptyDict) ELSE s.llm_config
        l1 == IF l0.t = "dict" THEN LDict([temperature |-> temp]) ELSE l0
    IN <<[s EXCEPT !.llm_config = l1], NoError>>

PersonaBuilder_temperature(s, temp) ==
    LET l0 == IF ~TruthyLlm(s.llm_config) THEN LDict(EmptyDict) ELSE s.llm_config
        l1 == IF l0.t = "dict"
              THEN LDict(DictUpdate(l0.d, [temperature |-> temp])) ELSE l0
    IN <<[s EXCEPT !.llm_config = l1], NoError>>

ValidModes == {"NEVER", "ALWAYS", "TERMINATE"}

PersonaBuilder_human_input_mode(s, mode) ==
    IF mode \notin ValidModes
    THEN <<s, Raise("ValueError", << <<"Invalid human_input_mode: ", mode>> >>)>>
    ELSE <<[s EXCEPT !.additional_kwargs = DictUpdate(@, [human_input_mode |-> mode])], NoError>>

PersonaBuilder_description(s, description) == <<[s EXCEPT !.description = description], NoError>>

\* An update_metadata that also loads a 'name' key into the core field
PersonaBuilder_update_metadata_into_core(s, isDict, metadata) ==
    IF ~isDict
    THEN <<s, Raise("ValueError", << <<"Metadata must be a dictionary">> >>)>>
    ELSE <<[s EXCEPT !.metadata = DictUpdate(@, metadata),
                     !.name = IF "name" \in DOMAIN metadata THEN metadata["name"] ELSE @],
           NoError>>

PersonaBuilder_update_metadata(s, isDict, metadata) ==
    IF ~isDict
    THEN <<s, Raise("ValueError", << <<"Metadata must be a dictionary">> >>)>>
    ELSE <<[s EXCEPT !.metadata = DictUpdate(@, metadata)], NoError>>

PersonaBuilder_add_kwargs(s, kwargs) ==
    <<[s EXCEPT !.additional_kwargs = DictUpdate(@, kwargs)], NoError>>

\* A from_dict that takes the dictionary's name whatever name the builder has
PersonaBuilder_from_dict_renaming(s, cd) ==
    IF ~cd.isDict
    THEN <<s, Raise("ValueError",
                 << <<"Configuration must be a dictionary for persona '", s.name, "'">> >>)>>
    ELSE
    LET s1 == [s EXCEPT
                  !.role = cd.role,
                  !.goal = cd.goal,
                  !.backstory = IF "backstory" \in cd.has THEN cd.backstory ELSE << >>,
                  !.constraints = IF "constraints" \in cd.has THEN cd.constraints
                                  ELSE CList(<< >>),
                  !.version = cd.version,
                  !.metadata = IF "metadata" \in cd.has THEN DictUpdate(@, cd.metadata) ELSE @,
                  !.name = IF "name" \in cd.has THEN cd.name ELSE @,
                  !.llm_config = IF "llm_config" \in cd.has THEN cd.llm_config ELSE @]
    IN IF TruthySeq(s1.constraints) /\ ~s1.constraints.isList
       THEN <<s1, Raise("ValueError",
                     << <<"Constraints must be a list for persona '", s1.name, "', got ",
                          "<class 'str'>">> >>)>>
       ELSE <<s1, NoError>>

\* A configuration dictionary: has names the keys present among backstory,
\* constraints, metadata, name and llm_config; an absent role, goal or
\* version reads as None.
PersonaBuilder_from_dict(s, cd) ==
    IF ~cd.isDict
    THEN <<s, Raise("ValueError",
                 << <<"Configuration must be a dictionary for persona '", s.name, "'">> >>)>>
    ELSE
    LET s1 == [s EXCEPT
                  !.role = cd.role,
                  !.goal = cd.goal,
                  !.backstory = IF "backstory" \in cd.has THEN cd.backstory ELSE << >>,
                  !.constraints = IF "constraints" \in cd.has THEN cd.constraints
                                  ELSE CList(<< >>),
                  !.version = cd.version,
                  !.metadata = IF "metadata" \in cd.has THEN DictUpdate(@, cd.metadata) ELSE @,
                  !.name = IF ~TruthyStr(s.name) /\ "name" \in cd.has THEN cd.name ELSE @,
                  !.llm_config = IF "llm_config" \in cd.has THEN cd.llm_config ELSE @]
    IN IF TruthySeq(s1.constraints) /\ ~s1.constraints.isList
       THEN <<s1, Raise("ValueError",
                     << <<"Constraints must be a list for persona '", s1.name, "', got ",
                          "<class 'str'>">> >>)>>
       ELSE <<s1, NoError>>

\* A resolution that lets the front matter override the builder's own name
PersonaBuilder_resolve_name_front_matter_first(s, config, fallback_name) ==
    IF TruthyStr(config.name) THEN config.name
    ELSE IF TruthyStr(s.name) THEN s.name
    ELSE IF TruthyStr(fallback_name) THEN fallback_name
    ELSE "unnamed_persona"

PersonaBuilder_resolve_name(s, config, fallback_name) ==
    IF TruthyStr(s.name) THEN s.name
    ELSE IF TruthyStr(config.name) THEN config.name
    ELSE IF TruthyStr(fallback_name) THEN fallback_name
    ELSE "unnamed_persona"

\* A load that also merges the front-matter keys the parser does not read
\* into the builder's metadata
PersonaBuilder_load_from_markdown_content_merging_unknown(s, doc, fallback_name) ==
    LET parsed == PersonaMarkdownParser_parse_persona_markdown(doc)
        config == parsed[1]
    IN IF parsed[2].kind # "none" THEN <<s, parsed[2], parsed[3]>>
       ELSE <<[s EXCEPT
                  !.name = PersonaBuilder_resolve_name(s, config, fallback_name),
                  !.role = IF config.role # NONE THEN config.role ELSE @,
                  !.goal = IF config.goal # NoneText THEN config.goal ELSE @,
                  !.backstory = config.backstory,
                  !.constraints = config.constraints,
                  !.llm_config = IF config.llm_config.t # "none" THEN config.llm_config ELSE @,
                  !.description = IF config.description # NoneText THEN config.description
                                  ELSE @,
                  !.version = IF config.version # NONE THEN config.version ELSE @,
                  !.metadata = DictUpdate(IF DOMAIN config.metadata # {}
                                          THEN DictUpdate(@, config.metadata) ELSE @,
                                          doc.unknown)],
              NoError, parsed[3]>>

\* A load that resolves the builder's name before it parses the content
PersonaBuilder_load_from_markdown_content_name_first(s, doc, fallback_name) ==
    LET parsed == PersonaMarkdownParser_parse_persona_markdown(doc)
        config == parsed[1]
    IN IF parsed[2].kind # "none"
       THEN <<[s EXCEPT !.name = PersonaBuilder_resolve_name(s, config, fallback_name)],
              parsed[2], parsed[3]>>
       ELSE <<[s EXCEPT
                  !.name = PersonaBuilder_resolve_name(s, config, fallback_name),
                  !.role = IF config.role # NONE THEN config.role ELSE @,
                  !.goal = IF config.goal # NoneText THEN config.goal ELSE @,
                  !.backstory = config.backstory,
                  !.constraints = config.constraints,
                  !.llm_config = IF config.llm_config.t # "none" THEN config.llm_config ELSE @,
                  !.description = IF config.description # NoneText THEN config.description
                                  ELSE @,
                  !.version = IF config.version # NONE THEN config.version ELSE @,
                  !.metadata = IF DOMAIN config.metadata # {}
                               THEN DictUpdate(@, config.metadata) ELSE @],
              NoError, parsed[3]>>

\* [builder, error, warnings logged]
PersonaBuilder_load_from_markdown_content(s, doc, fallback_name) ==
    LET parsed == PersonaMarkdownParser_parse_persona_markdown(doc)
        config == parsed[1]
    IN IF parsed[2].kind # "none" THEN <<s, parsed[2], parsed[3]>>
       ELSE <<[s EXCEPT
                  !.name = PersonaBuilder_resolve_name(s, config, fallback_name),
                  !.role = IF config.role # NONE THEN config.role ELSE @,
                  !.goal = IF config.goal # NoneText THEN config.goal ELSE @,
                  !.backstory = config.backstory,
                  !.constraints = config.constraints,
                  !.llm_config = IF config.llm_config.t # "none" THEN config.llm_config ELSE @,
                  !.description = IF config.description # NoneText THEN config.description
                                  ELSE @,
                  !.version = IF config.version # NONE THEN config.version ELSE @,
                  !.metadata = IF DOMAIN config.metadata # {}
                               THEN DictUpdate(@, config.metadata) ELSE @],
              NoError, parsed[3]>>

PersonaBuilder_with_markdown(s, doc) ==
    PersonaBuilder_load_from_markdown_content(s, doc, NONE)

\* A file: exists, its stem and its content
PersonaBuilder_with_markdown_file(s, file) ==
    IF ~file.exists
    THEN <<s, Raise("FileNotFoundError", << <<"Persona Markdown file not found: ", file.path>> >>),
           << >> >>
    ELSE PersonaBuilder_load_from_markdown_content(s, file.doc, file.stem)

PersonaBuilder_from_markdown(file) ==
    PersonaBuilder_with_markdown_file(PersonaBuilder_init(NONE), file)

\* An extend_goal that joins the addition to whatever the goal holds
PersonaBuilder_extend_goal_always_joins(s, additional_goal) ==
    <<[s EXCEPT !.goal = @ \o <<". Additionally, ">> \o additional_goal], NoError>>

PersonaBuilder_extend_goal(s, additional_goal) ==
    IF TruthyText(s.goal)
    THEN <<[s EXCEPT !.goal = @ \o <<". Additionally, ">> \o additional_goal], NoError>>
    ELSE <<[s EXCEPT !.goal = additional_goal], NoError>>

PersonaBuilder_from_persona_dict(cd, name) ==
    LET builder_name == IF TruthyStr(name) THEN name
                        ELSE IF "name" \in cd.has THEN cd.name ELSE NONE
    IN PersonaBuilder_from_dict(PersonaBuilder_init(builder_name), cd)

\* raise ValueError(f"Persona validation failed for '{self.name}':\n" + "\n".join(...))
ValidationFailed(name, errors) ==
    Raise("ValueError",
          << <<"Persona validation failed for '", name, "':">> >> \o
          [i \in 1..Len(errors) |-> <<"  - ">> \o errors[i]])

\* The list "errors" validate() collects
PersonaBuilder_validate_errors(s) ==
       (IF ~TruthyStr(s.name) THEN << <<"Persona name is required">> >> ELSE << >>)
    \o (IF ~TruthyStr(s.role)
        THEN << <<"Role is required for persona '", s.name, "'">> >> ELSE << >>)
    \o (IF ~TruthyText(s.goal)
        THEN << <<"Goal is required for persona '", s.name, "'">> >> ELSE << >>)
    \o (IF TruthySeq(s.constraints) /\ ~s.constraints.isList
        THEN << <<"Constraints must be a list for persona '", s.name, "', got ",
                  "<class 'str'>">> >>
        ELSE << >>)
    \o (IF s.llm_config.t # "none" /\ s.llm_config.t # "false"
        THEN IF s.llm_config.t # "dict"
             THEN << <<"LLM config must be a dictionary for persona '", s.name,
                       "', got ", "<class 'bool'>">> >>
             ELSE IF ~(\E key \in {"config_list", "model"} : key \in DOMAIN s.llm_config.d)
             THEN << <<"LLM config must contain 'config_list' or 'model' for persona '",
                       s.name, "'">> >>
             ELSE << >>
        ELSE << >>)

\* A validate() that raises at the first rule violated instead of collecting
PersonaBuilder_validate_first_failure(s) ==
    LET errors == PersonaBuilder_validate_errors(s)
    IN IF errors # << >> THEN ValidationFailed(s.name, SubSeq(errors, 1, 1)) ELSE NoError

\* The error validate() raises, or NoError
PersonaBuilder_validate(s) ==
    LET errors == PersonaBuilder_validate_errors(s)
    IN IF errors # << >> THEN ValidationFailed(s.name, errors) ELSE NoError

\* The containers of a builder that a PersonaAgent built from it holds too
\* (passed by reference, never copied)
SharedOnBuild(s) ==
    {"constraints"} \cup (IF DOMAIN s.metadata # {} THEN {"metadata"} ELSE {})
                    \cup (IF s.llm_config.t = "dict" THEN {"llm_config"} ELSE {})

\* The arguments build() constructs the PersonaAgent with
PersonaBuilder_build_args(s) ==
    [name |-> s.name, role |-> s.role, goal |-> s.goal, backstory |-> s.backstory,
     has_constraints |-> TRUE, constraints |-> s.constraints,
     description |-> s.description, version |-> s.version,
     has_metadata |-> DOMAIN s.metadata # {}, metadata |-> s.metadata,
     has_llm_config |-> TRUE, llm_config |-> s.llm_config,
     kwargs |-> s.additional_kwargs]

\* [agent constructed (NoAgent when it raises), error]
PersonaBuilder_build(s) ==
    LET invalid == PersonaBuilder_validate(s)
    IN IF invalid.kind # "none" THEN <<NoAgent, invalid>>
       ELSE <<[PersonaAgent_init(PersonaBuilder_build_args(s))
                  EXCEPT !.shares = SharedOnBuild(s)],
              NoError>>

----------------------------------------------------------------------------
(* AsyncPersonaBuilder (async_persona_builder.py).  A fluent method records *)
(* a closure in _steps; build() runs the closures.  A recorded closure is   *)
(* the record of its name, its kind (is_async) and the argument it captured.*)

AsyncPersonaBuilder_init(name) ==
    [name |-> name, role |-> NONE, goal |-> NoneText, backstory |-> << >>,
     constraints |-> CList(<< >>), llm_config |-> LNone, description |-> NoneText,
     additional_kwargs |-> EmptyDict]

\* A _steps that is one list of the class, the same for every instance
AsyncPersonaBuilder_init_steps_of_class(i) == 1

\* "self._steps = []" in the constructor of the i-th instance: the list
\* object the instance refers to, a new one for each instance
AsyncPersonaBuilder_init_steps(i) == i

NoConfigDict ==
    [isDict |-> TRUE, has |-> {}, role |-> NONE, goal |-> NoneText, backstory |-> << >>,
     constraints |-> CList(<< >>), version |-> NONE, metadata |-> EmptyDict,
     name |-> NONE, llm_config |-> LNone]

NoYaml == [exists |-> FALSE, path |-> "", loads |-> FALSE, empty |-> FALSE, cd |-> NoConfigDict]

NoStep ==
    [op |-> "", is_async |-> 0, s |-> NONE, t |-> NoneText, c |-> CList(<< >>),
     l |-> LNone, k |-> EmptyDict, cd |-> NoConfigDict, file |-> NoYaml]

\* A _record_sync that runs nothing later: the operation is not queued
AsyncPersonaBuilder_record_sync_dropped(q, func) == q

AsyncPersonaBuilder_record_sync(q, func) == Append(q, [func EXCEPT !.is_async = 0])
AsyncPersonaBuilder_record_async(q, func) == Append(q, [func EXCEPT !.is_async = 1])

\* The body shared by load_from_dict and load_from_yaml: [builder, error]
AsyncLoadConfig(s, cd) ==
    IF ~cd.isDict
    THEN <<s, Raise("ValueError",
                 << <<"Configuration must be a dictionary for persona '", s.name, "'">> >>)>>
    ELSE
    LET s1 == [s EXCEPT
                  !.role = cd.role,
                  !.goal = cd.goal,
                  !.backstory = IF "backstory" \in cd.has THEN cd.backstory ELSE << >>]
        constraints_raw == IF "constraints" \in cd.has THEN cd.constraints ELSE CList(<< >>)
    IN IF TruthySeq(constraints_raw) /\ ~constraints_raw.isList
       THEN <<s1, Raise("ValueError",
                     << <<"Constraints must be a list for persona '", s1.name, "', got ",
                          "<class 'str'>">> >>)>>
       ELSE <<[s1 EXCEPT !.constraints = constraints_raw], NoError>>

\* load_from_yaml once the file has been read: [builder, error]
AsyncLoadYaml(s, file) ==
    IF ~file.exists
    THEN <<s, Raise("FileNotFoundError", << <<"Persona YAML file not found: ", file.path>> >>)>>
    ELSE IF ~file.loads
    THEN <<s, Raise("ValueError", << <<"Error loading YAML from ", file.path>> >>)>>
    ELSE IF file.empty
    THEN <<s, Raise("ValueError",
                 << <<"YAML file ", file.path, " is empty or contains no valid data">> >>)>>
    ELSE AsyncLoadConfig(s, file.cd)

\* Running one recorded closure: [builder, error]
AsyncRunStep(s, f) ==
    CASE f.op = "set_role" -> <<[s EXCEPT !.role = f.s], NoError>>
      [] f.op = "set_goal" -> <<[s EXCEPT !.goal = f.t], NoError>>
      [] f.op = "set_backstory" -> <<[s EXCEPT !.backstory = f.t], NoError>>
      [] f.op = "add_constraint_impl" ->
            IF f.s # "" /\ ~InSeq(f.s, s.constraints.items)
            THEN IF s.constraints.isList
                 THEN <<[s EXCEPT !.constraints.items = Append(@, f.s)], NoError>>
                 ELSE <<s, Raise("AttributeError",
                              << <<"'str' object has no attribute 'append'">> >>)>>
            ELSE <<s, NoError>>
      [] f.op = "set_constraints" -> <<[s EXCEPT !.constraints = f.c], NoError>>
      [] f.op = "set_llm_config" -> <<[s EXCEPT !.llm_config = f.l], NoError>>
      [] f.op = "set_temperature" ->
            LET l0 == IF ~TruthyLlm(s.llm_config) THEN LDict(EmptyDict) ELSE s.llm_config
                l1 == IF l0.t = "dict"
                      THEN LDict(DictUpdate(l0.d, [temperature |-> f.s])) ELSE l0
            IN <<[s EXCEPT !.llm_config = l1], NoError>>
      [] f.op = "set_description" -> <<[s EXCEPT !.description = f.t], NoError>>
      [] f.op = "set_human_input_never" ->
            <<[s EXCEPT !.additional_kwargs = DictUpdate(@, [human_input_mode |-> "NEVER"])],
              NoError>>
      [] f.op = "set_human_input_always" ->
            <<[s EXCEPT !.additional_kwargs = DictUpdate(@, [human_input_mode |-> "ALWAYS"])],
              NoError>>
      [] f.op = "set_human_input_terminate" ->
            <<[s EXCEPT !.additional_kwargs = DictUpdate(@, [human_input_mode |-> "TERMINATE"])],
              NoError>>
      [] f.op = "set_kwargs" -> <<[s EXCEPT !.additional_kwargs = DictUpdate(@, f.k)], NoError>>
      [] f.op = "extend_goal_impl" ->
            IF TruthyText(s.goal)
            THEN <<[s EXCEPT !.goal = @ \o <<". Additionally, ">> \o f.t], NoError>>
            ELSE <<[s EXCEPT !.goal = f.t], NoError>>
      [] f.op = "load_from_dict" -> AsyncLoadConfig(s, f.cd)
      [] f.op = "load_from_yaml" -> AsyncLoadYaml(s, f.file)

\* The error validate() raises, or NoError
AsyncPersonaBuilder_validate(s) ==
    LET errors ==
            (IF ~TruthyStr(s.name) THEN << <<"Persona name is required">> >> ELSE << >>)
         \o (IF ~TruthyStr(s.role)
             THEN << <<"Role is required for persona '", s.name, "'">> >> ELSE << >>)
         \o (IF ~TruthyText(s.goal)
             THEN << <<"Goal is required for persona '", s.name, "'">> >> ELSE << >>)
         \o (IF s.llm_config.t = "dict"
                /\ ~(\E key \in {"config_list", "model"} : key \in DOMAIN s.llm_config.d)
             THEN << <<"LLM config must contain one of ['config_list', 'model'] for persona '",
                       s.name, "'">> >>
             ELSE << >>)
    IN IF errors # << >> THEN ValidationFailed(s.name, errors) ELSE NoError

\* An order that runs every synchronous closure before the asynchronous ones
ExecOrder_sync_first(q) ==
    SelectSeq([k \in 1..Len(q) |-> k], LAMBDA k : q[k].is_async = 0)
    \o SelectSeq([k \in 1..Len(q) |-> k], LAMBDA k : q[k].is_async = 1)

\* The order in which build() runs the recorded closures: iteration k of
\* "for is_async, func in self._steps" runs _steps[ExecOrder(q)[k]]
ExecOrder(q) == [k \in 1..Len(q) |-> k]

\* The arguments build() constructs the PersonaAgent with
AsyncPersonaBuilder_build_args(s) ==
    [name |-> s.name, role |-> s.role, goal |-> s.goal, backstory |-> s.backstory,
     has_constraints |-> TRUE, constraints |-> s.constraints,
     description |-> s.description, version |-> NONE,
     has_metadata |-> FALSE, metadata |-> EmptyDict,
     has_llm_config |-> TRUE, llm_config |-> s.llm_config,
     kwargs |-> s.additional_kwargs]

\* The end of build(), after the loop: [agent constructed (NoAgent when it raises), error]
AsyncPersonaBuilder_build_finish(s) ==
    LET invalid == AsyncPersonaBuilder_validate(s)
    IN IF invalid.kind # "none" THEN <<NoAgent, invalid>>
       ELSE <<[PersonaAgent_init(AsyncPersonaBuilder_build_args(s))
                  EXCEPT !.shares = {"constraints"} \cup
                                    (IF s.llm_config.t = "dict" THEN {"llm_config"} ELSE {})],
              NoError>>

----------------------------------------------------------------------------
(* Sharing.  build() hands the builder's own list and dicts to the agent,   *)
(* so a later in-place change through the builder shows in the agent, until *)
(* the builder binds a new object to the attribute.  agent.shares names the *)
(* attributes whose object the agent still shares with its builder.         *)

SeenThroughBuilder(a, s1, rebound) ==
    IF ~a.exists THEN a
    ELSE LET sh == a.shares \ rebound
         IN [a EXCEPT
                !.shares = sh,
                !.constraints = IF "constraints" \in sh THEN s1.constraints ELSE @,
                !.metadata = IF "metadata" \in sh THEN s1.metadata ELSE @,
                !.llm_config = IF "llm_config" \in sh THEN s1.llm_config ELSE @]

----------------------------------------------------------------------------
(* The inputs of the model *)

InitNames == {NONE, "", "B"}
ConstraintValues == {CList(<<"c1", "c1">>), CStr(<< >>), CStr(<<"a", "b">>)}
LlmValues ==
    {LFalse, LTrue, LDict(EmptyDict), LDict([model |-> "m"]), LDict([temperature |-> "0.5"])}
\* The arguments of update_metadata: two mappings (the second has a key named
\* like a core field and a key the first one has too) and a non-mapping
MetadataArgs ==
    {[isDict |-> TRUE, d |-> [team |-> "a", owner |-> "o"]],
     [isDict |-> TRUE, d |-> [name |-> "X", team |-> "b"]],
     [isDict |-> FALSE, d |-> EmptyDict]}

\* The dictionaries given to from_dict
ConfigDict(kind) ==
    CASE kind = "full" ->
            [NoConfigDict EXCEPT
                !.has = {"backstory", "constraints", "metadata", "name", "llm_config"},
                !.role = "R2", !.goal = <<"G2">>, !.backstory = <<"Bk2">>,
                !.constraints = CList(<<"c2">>), !.version = "1.0",
                !.metadata = [owner |-> "o"], !.name = "D",
                !.llm_config = LDict([model |-> "m2"])]
      [] kind = "role_only" -> [NoConfigDict EXCEPT !.role = "R2"]
      [] kind = "bad_constraints" ->
            [NoConfigDict EXCEPT
                !.has = {"constraints"}, !.role = "R2", !.goal = <<"G2">>,
                !.constraints = CStr(<<"a", "b">>)]
      [] kind = "not_a_dict" -> [NoConfigDict EXCEPT !.isDict = FALSE]
ConfigDicts == {ConfigDict(kind) : kind \in {"full", "role_only", "bad_constraints", "not_a_dict"}}

BackstoryBody == << [hdr |-> TRUE, s |-> "Backstory"], [hdr |-> FALSE, s |-> "Senior engineer."] >>
NoDoc ==
    [fm_ok |-> TRUE, name |-> NONE, role |-> NONE, goal |-> NoneText,
     has_constraints |-> FALSE, constraints |-> CList(<< >>), llm_config |-> LNone,
     version |-> NONE, description |-> NoneText, metadata |-> EmptyDict,
     unknown |-> EmptyDict, body |-> << >>]
\* No document parsed yet
NoParse == [done |-> FALSE, doc |-> NoDoc, config |-> NoConfig, err |-> NoError, warnings |-> << >>]

\* The Markdown documents given to the loads
Doc(kind) ==
    CASE kind = "full" ->
            [NoDoc EXCEPT
                !.name = "F", !.role = "Reviewer", !.goal = <<"Review code">>,
                !.has_constraints = TRUE, !.constraints = CList(<<"c3">>),
                !.llm_config = LDict([model |-> "m3", temperature |-> "0.3"]),
                !.version = "2.0", !.metadata = [team |-> "t"], !.body = BackstoryBody]
      [] kind = "no_name" ->
            [NoDoc EXCEPT !.role = "Reviewer", !.goal = <<"Review code">>, !.body = BackstoryBody]
      [] kind = "empty_name" ->
            [NoDoc EXCEPT
                !.name = "", !.role = "Reviewer", !.goal = <<"Review code">>,
                !.body = BackstoryBody]
      [] kind = "no_role" ->
            [NoDoc EXCEPT !.name = "F", !.goal = <<"Review code">>, !.body = BackstoryBody]
      [] kind = "bad_front_matter" -> [NoDoc EXCEPT !.fm_ok = FALSE]
      [] kind = "bad_constraints" ->
            [NoDoc EXCEPT
                !.role = "Reviewer", !.goal = <<"Review code">>, !.body = BackstoryBody,
                !.has_constraints = TRUE, !.constraints = CStr(<<"a", "b">>)]
Docs ==
    {Doc(kind) : kind \in {"full", "no_name", "empty_name", "no_role", "bad_front_matter",
                           "bad_constraints"}}

NoFile == [exists |-> FALSE, path |-> "missing.md", stem |-> "missing", doc |-> NoDoc]
Files ==
    {NoFile,
     [exists |-> TRUE, path |-> "S.md", stem |-> "S", doc |-> Doc("full")],
     [exists |-> TRUE, path |-> "S.md", stem |-> "S", doc |-> Doc("no_name")]}

----------------------------------------------------------------------------
(* The immediate builder: one action per call on the PersonaBuilder b *)

\* What the last Markdown load was given: the builder's name before it, the
\* front matter's name and the fallback name
NoArg == [name |-> NONE, front |-> NONE, fallback |-> NONE]

\* A fluent call that returned res = <<builder, error>> and bound new objects
\* to the attributes in rebound.  input records what a Markdown load was given.
Call(op, res, rebound, warnings, input) ==
    /\ nops < MaxOps
    /\ nops' = nops + 1
    /\ b' = res[1]
    /\ err' = res[2]
    /\ log' = warnings
    /\ lastOp' = op
    /\ arg' = input
    /\ agent' = SeenThroughBuilder(agent, res[1], rebound)
    /\ UNCHANGED <<ab, steps, pc, pre, exported, restored, nbuilds, given, parse, builders>>

Fluent(op, res, rebound, warnings) == Call(op, res, rebound, warnings, NoArg)

SetName == Fluent("set_name", PersonaBuilder_set_name(b, "B"), {}, << >>)
Role == \E r \in {"", "R"} : Fluent("role", PersonaBuilder_role(b, r), {}, << >>)
Goal == \E g \in {<< >>, <<"G">>} : Fluent("goal", PersonaBuilder_goal(b, g), {}, << >>)
Backstory == Fluent("backstory", PersonaBuilder_backstory(b, <<"Bk">>), {}, << >>)
AddConstraint(c) == Fluent("add_constraint", PersonaBuilder_add_constraint(b, c), {}, << >>)
Constraints(c) == Fluent("constraints", PersonaBuilder_constraints(b, c), {"constraints"}, << >>)
LlmConfig ==
    \E l \in LlmValues :
        Fluent("llm_config", PersonaBuilder_llm_config(b, l), {"llm_config"}, << >>)
Temperature ==
    Fluent("temperature", PersonaBuilder_temperature(b, "0.7"),
           IF TruthyLlm(b.llm_config) THEN {} ELSE {"llm_config"}, << >>)
HumanInputMode ==
    \E m \in {"NEVER", "BOGUS"} :
        Fluent("human_input_mode", PersonaBuilder_human_input_mode(b, m), {}, << >>)
Description == Fluent("description", PersonaBuilder_description(b, <<"D">>), {}, << >>)
UpdateMetadata(m) ==
    Fluent("update_metadata", PersonaBuilder_update_metadata(b, m.isDict, m.d), {}, << >>)
AddKwargs ==
    Fluent("add_kwargs", PersonaBuilder_add_kwargs(b, [max_consecutive_auto_reply |-> "10"]),
           {}, << >>)
FromDict ==
    \E cd \in ConfigDicts :
        Fluent("from_dict", PersonaBuilder_from_dict(b, cd),
               IF ~cd.isDict THEN {}
               ELSE {"constraints"} \cup (IF "llm_config" \in cd.has THEN {"llm_config"} ELSE {}),
               << >>)
ExtendGoal(x) == Fluent("extend_goal", PersonaBuilder_extend_goal(b, x), {}, << >>)

\* The attributes a Markdown load binds new objects to
MarkdownRebinds(res, doc) ==
    IF res[2].kind # "none" THEN {}
    ELSE {"constraints"} \cup (IF doc.llm_config.t # "none" THEN {"llm_config"} ELSE {})

WithMarkdown(doc) ==
    LET res == PersonaBuilder_with_markdown(b, doc)
    IN Call("with_markdown", res, MarkdownRebinds(res, doc), res[3],
            [name |-> b.name, front |-> doc.name, fallback |-> NONE])
WithMarkdownFile(file) ==
    LET res == PersonaBuilder_with_markdown_file(b, file)
    IN Call("with_markdown_file", res, MarkdownRebinds(res, file.doc), res[3],
            [name |-> b.name, front |-> file.doc.name, fallback |-> file.stem])
\* The class method: b becomes the new builder it returns (b is kept when it raises)
FromMarkdown(file) ==
    LET res == PersonaBuilder_from_markdown(file)
    IN Call("from_markdown", <<IF res[2].kind = "none" THEN res[1] ELSE b, res[2]>>,
            IF res[2].kind = "none" THEN {"constraints", "metadata", "llm_config"} ELSE {},
            res[3], [name |-> NONE, front |-> file.doc.name, fallback |-> file.stem])

Validate ==
    /\ err' = PersonaBuilder_validate(b)
    /\ lastOp' = "validate"
    /\ log' = << >>
    /\ UNCHANGED <<b, ab, steps, pc, pre, agent, exported, restored, nops, nbuilds, arg,
                   given, parse, builders>>

Build ==
    LET res == PersonaBuilder_build(b)
    IN /\ agent' = IF res[2].kind = "none" THEN res[1] ELSE agent
       /\ given' = IF res[2].kind = "none" THEN PersonaBuilder_build_args(b) ELSE given
       /\ err' = res[2]
       /\ lastOp' = "build"
       /\ log' = << >>
       /\ UNCHANGED <<b, ab, steps, pc, pre, exported, restored, nops, nbuilds, arg, parse, builders>>


\* The round trip of test_to_dict_from_dict through the builder:
\* from_persona_dict(a.to_dict()), llm_config re-applied, build()
AsConfigDict(d) ==
    [isDict |-> TRUE, has |-> {"backstory", "constraints", "metadata", "name", "llm_config"},
     role |-> d.role, goal |-> d.goal, backstory |-> d.backstory,
     constraints |-> d.constraints, version |-> d.version, metadata |-> d.metadata,
     name |-> d.name, llm_config |-> d.llm_config]

RoundTripOf(a) ==
    LET loaded == PersonaBuilder_from_persona_dict(AsConfigDict(PersonaAgent_to_dict(a)), NONE)
    IN IF loaded[2].kind # "none" THEN <<NoAgent, loaded[2]>>
       ELSE PersonaBuilder_build(PersonaBuilder_llm_config(loaded[1], a.llm_config)[1])

RoundTrip ==
    /\ agent.exists
    /\ exported' = PersonaAgent_to_dict(agent)
    /\ restored' = RoundTripOf(agent)[1]
    /\ err' = RoundTripOf(agent)[2]
    /\ lastOp' = "round_trip"
    /\ log' = << >>
    /\ UNCHANGED <<b, ab, steps, pc, pre, agent, nops, nbuilds, arg, given, parse, builders>>

Idle == [i |-> 0, awaiting |-> FALSE]

\* AsyncPersonaBuilder("B1") and AsyncPersonaBuilder("B2") just constructed.
\* Of each instance: its configuration ab, the list its _steps refers to,
\* the position pc of its running build(), what that build() started from
\* (configuration, agent built before, queue), the agent its last build()
\* returned and the error it raised, whether that build() has ended (done)
\* or was cancelled, and the number of its build() calls.  actor is the
\* instance that took the most recent step; overlapped tells whether the
\* two build() calls have been suspended at the same time.
FreshBuilders ==
    [of |-> [i \in {1, 2} |->
                [ab |-> AsyncPersonaBuilder_init(IF i = 1 THEN "B1" ELSE "B2"),
                 steps |-> AsyncPersonaBuilder_init_steps(i),
                 pc |-> Idle,
                 start |-> [ab |-> AsyncPersonaBuilder_init(NONE), agent |-> NoAgent, q |-> << >>],
                 agent |-> NoAgent, err |-> NoError,
                 done |-> FALSE, cancelled |-> FALSE, nbuilds |-> 0]],
     lists |-> [r \in {1, 2} |-> << >>],
     actor |-> 0,
     overlapped |-> FALSE]

Init ==
    /\ b \in {PersonaBuilder_init(n) : n \in InitNames}
    /\ ab = AsyncPersonaBuilder_init(NONE)
    /\ steps = << >>
    /\ pc = Idle
    /\ pre = AsyncPersonaBuilder_init(NONE)
    /\ agent = NoAgent
    /\ exported = NoDict
    /\ restored = NoAgent
    /\ err = NoError
    /\ lastOp = "init"
    /\ arg = NoArg
    /\ given = NoArgs
    /\ log = << >>
    /\ parse = NoParse
    /\ builders = FreshBuilders
    /\ nops = 0
    /\ nbuilds = 0

Next ==
    \/ SetName \/ Role \/ Goal \/ Backstory
    \/ (\E c \in {"", "c1", "c3"} : AddConstraint(c))
    \/ (\E c \in ConstraintValues : Constraints(c))
    \/ LlmConfig \/ Temperature \/ HumanInputMode \/ Description
    \/ (\E m \in MetadataArgs : UpdateMetadata(m))
    \/ AddKwargs \/ FromDict
    \/ ExtendGoal(<<"X">>)
    \/ (\E doc \in Docs : WithMarkdown(doc))
    \/ (\E file \in Files : WithMarkdownFile(file))
    \/ (\E file \in Files : FromMarkdown(file))
    \/ Validate \/ Build \/ RoundTrip

Spec == Init /\ [][Next]_vars

----------------------------------------------------------------------------
(* The deferred builder: one action per fluent call on the                  *)
(* AsyncPersonaBuilder ab, and the steps of its build() coroutine, which    *)
(* runs without interruption between two suspensions ("await").  No fluent  *)
(* call is made while a build() is running (one logical caller).            *)

\* The YAML files given to from_yaml: a missing one, one that does not load,
\* and one that holds a mapping
YamlFiles ==
    {[NoYaml EXCEPT !.path = "missing.yaml"],
     [NoYaml EXCEPT !.exists = TRUE, !.path = "bad.yaml"],
     [NoYaml EXCEPT
         !.exists = TRUE, !.path = "good.yaml", !.loads = TRUE,
         !.cd = [NoConfigDict EXCEPT
                    !.has = {"backstory", "constraints"}, !.role = "R3", !.goal = <<"G3">>,
                    !.backstory = <<"Bk3">>, !.constraints = CList(<<"c3">>)]]}

\* A fluent call: its closure func is recorded by _record_sync (is_async 0)
\* or _record_async (is_async 1)
Record(op, func, is_async) ==
    /\ pc.i = 0
    /\ Len(steps) < MaxSteps
    /\ steps' = IF is_async = 1 THEN AsyncPersonaBuilder_record_async(steps, func)
                 ELSE AsyncPersonaBuilder_record_sync(steps, func)
    /\ err' = NoError
    /\ log' = << >>
    /\ lastOp' = op
    /\ UNCHANGED <<b, ab, pc, pre, agent, exported, restored, nops, nbuilds, arg, given, parse, builders>>

\* The fluent methods: each records the closure it defines
AsyncRole == Record("role", [NoStep EXCEPT !.op = "set_role", !.s = "R"], 0)
AsyncGoal == Record("goal", [NoStep EXCEPT !.op = "set_goal", !.t = <<"G">>], 0)
AsyncBackstory == Record("backstory", [NoStep EXCEPT !.op = "set_backstory", !.t = <<"Bk">>], 0)
AsyncAddConstraint ==
    Record("add_constraint", [NoStep EXCEPT !.op = "add_constraint_impl", !.s = "c1"], 0)
AsyncConstraints ==
    \E c \in {CList(<<"c1", "c1">>), CStr(<<"a", "b">>)} :
        Record("constraints", [NoStep EXCEPT !.op = "set_constraints", !.c = c], 0)
AsyncLlmConfig ==
    \E l \in {LFalse, LTrue, LDict([model |-> "m"]), LDict([temperature |-> "0.5"])} :
        Record("llm_config", [NoStep EXCEPT !.op = "set_llm_config", !.l = l], 0)
AsyncTemperature ==
    Record("temperature", [NoStep EXCEPT !.op = "set_temperature", !.s = "0.7"], 0)
AsyncDescription ==
    Record("description", [NoStep EXCEPT !.op = "set_description", !.t = <<"D">>], 0)
AsyncHumanInputNever ==
    Record("human_input_never", [NoStep EXCEPT !.op = "set_human_input_never"], 0)
AsyncHumanInputAlways ==
    Record("human_input_always", [NoStep EXCEPT !.op = "set_human_input_always"], 0)
AsyncHumanInputTerminate ==
    Record("human_input_terminate", [NoStep EXCEPT !.op = "set_human_input_terminate"], 0)
AsyncKwargs ==
    Record("kwargs",
           [NoStep EXCEPT !.op = "set_kwargs", !.k = [max_consecutive_auto_reply |-> "10"]], 0)
AsyncExtendGoal(x) ==
    Record("extend_goal", [NoStep EXCEPT !.op = "extend_goal_impl", !.t = x], 0)
AsyncFromDict ==
    \E kind \in {"full", "bad_constraints", "not_a_dict"} :
        Record("from_dict", [NoStep EXCEPT !.op = "load_from_dict", !.cd = ConfigDict(kind)], 0)
AsyncFromYaml ==
    \E file \in YamlFiles :
        Record("from_yaml", [NoStep EXCEPT !.op = "load_from_yaml", !.file = file], 1)

\* The attributes a closure that returned res binds new objects to
StepRebinds(f, s, res) ==
    CASE f.op = "set_constraints" -> {"constraints"}
      [] f.op = "set_llm_config" -> {"llm_config"}
      [] f.op = "set_temperature" -> IF TruthyLlm(s.llm_config) THEN {} ELSE {"llm_config"}
      [] f.op \in {"load_from_dict", "load_from_yaml"} ->
            IF res[2].kind = "none" THEN {"constraints"} ELSE {}
      [] OTHER -> {}

\* One closure f has run on configuration s, a being the agent built before:
\* the configuration, the agent, and the error the closure raised
RunClosure(s, a, f) ==
    LET res == AsyncRunStep(s, f)
    IN [s |-> res[1], a |-> SeenThroughBuilder(a, res[1], StepRebinds(f, s, res)),
        err |-> res[2]]

\* build() runs on from iteration k of its loop without being suspended: the
\* synchronous closures run one after another until one raises (i = 0), an
\* asynchronous one is reached (i is its iteration) or the loop ends
\* (i = Len(q) + 1)
RECURSIVE RunLoop(_, _, _, _)
RunLoop(s, a, q, k) ==
    IF k > Len(q) THEN [s |-> s, a |-> a, err |-> NoError, i |-> k]
    ELSE LET f == q[ExecOrder(q)[k]]
         IN IF f.is_async = 1 THEN [s |-> s, a |-> a, err |-> NoError, i |-> k]
            ELSE LET r == RunClosure(s, a, f)
                 IN IF r.err # NoError THEN [s |-> r.s, a |-> r.a, err |-> r.err, i |-> 0]
                    ELSE RunLoop(r.s, r.a, q, k + 1)

\* build() has run up to r: it raised, or is suspended in "await func()", or
\* goes on to validate() and the construction of the agent
Advance(r) ==
    /\ ab' = r.s
    /\ IF r.err # NoError
       THEN /\ pc' = Idle
            /\ err' = r.err
            /\ agent' = r.a
            /\ given' = given
       ELSE IF r.i <= Len(steps)
       THEN /\ pc' = [i |-> r.i, awaiting |-> TRUE]
            /\ err' = NoError
            /\ agent' = r.a
            /\ given' = given
       ELSE LET res == AsyncPersonaBuilder_build_finish(r.s)
            IN /\ pc' = Idle
               /\ err' = res[2]
               /\ agent' = IF res[2] = NoError THEN res[1] ELSE r.a
               /\ given' = IF res[2] = NoError THEN AsyncPersonaBuilder_build_args(r.s)
                           ELSE given

\* "await builder.build()": the coroutine runs until its first suspension
AsyncBuildStart ==
    /\ pc.i = 0
    /\ nbuilds < MaxBuilds
    /\ nbuilds' = nbuilds + 1
    /\ pre' = ab
    /\ log' = << >>
    /\ lastOp' = "build"
    /\ Advance(RunLoop(ab, agent, steps, 1))
    /\ UNCHANGED <<b, steps, exported, restored, nops, arg, parse, builders>>

\* The closure the suspended build() is awaiting
CurrentStep == steps[ExecOrder(steps)[pc.i]]

\* The file has been read: the awaited closure finishes and build() runs on
AsyncBuildResume ==
    /\ pc.awaiting
    /\ LET r == RunClosure(ab, agent, CurrentStep)
       IN Advance(IF r.err # NoError THEN [s |-> r.s, a |-> r.a, err |-> r.err, i |-> 0]
                  ELSE RunLoop(r.s, r.a, steps, pc.i + 1))
    /\ UNCHANGED <<b, steps, pre, exported, restored, lastOp, log, nops, nbuilds, arg, parse, builders>>

InitAsync ==
    /\ b = PersonaBuilder_init(NONE)
    /\ ab \in {AsyncPersonaBuilder_init(n) : n \in {"", "B"}}
    /\ steps = << >>
    /\ pc = Idle
    /\ pre = AsyncPersonaBuilder_init(NONE)
    /\ agent = NoAgent
    /\ exported = NoDict
    /\ restored = NoAgent
    /\ err = NoError
    /\ lastOp = "init"
    /\ arg = NoArg
    /\ given = NoArgs
    /\ log = << >>
    /\ parse = NoParse
    /\ builders = FreshBuilders
    /\ nops = 0
    /\ nbuilds = 0

NextAsync ==
    \/ AsyncRole \/ AsyncGoal \/ AsyncBackstory \/ AsyncAddConstraint \/ AsyncConstraints
    \/ AsyncLlmConfig \/ AsyncTemperature \/ AsyncDescription \/ AsyncHumanInputNever
    \/ AsyncHumanInputAlways \/ AsyncHumanInputTerminate \/ AsyncKwargs
    \/ AsyncExtendGoal(<<"X">>)
    \/ AsyncFromDict \/ AsyncFromYaml
    \/ AsyncBuildStart \/ AsyncBuildResume \/ (pc.i = 0 /\ RoundTrip)

SpecAsync == InitAsync /\ [][NextAsync]_vars

----------------------------------------------------------------------------
(* A PersonaAgent constructed directly, and the calls made on it *)

AgentArgs ==
    {[NoArgs EXCEPT
         !.backstory = bk, !.has_constraints = c[1], !.constraints = c[2], !.kwargs = kw,
         !.has_metadata = m[1], !.metadata = m[2]] :
        bk \in {<< >>, <<"Bk">>},
        c \in {<<FALSE, CList(<< >>)>>, <<TRUE, CList(<<"c1">>)>>,
               <<TRUE, CList(<<"c1", "c2", "c1">>)>>},
        kw \in {EmptyDict, [system_message |-> "Extra"]},
        m \in {<<FALSE, EmptyDict>>, <<TRUE, [team |-> "t0"]>>}}

\* to_dict() puts self.constraints and self._metadata themselves in the
\* mapping it returns: a mapping d exported earlier shows agent a's list and dict
SeenThroughExport(d, a) ==
    IF d.exists THEN [d EXCEPT !.constraints = a.constraints, !.metadata = a.metadata] ELSE d

AgentCall(op, a, e) ==
    /\ agent.exists
    /\ nops < MaxAgentOps
    /\ nops' = nops + 1
    /\ agent' = a
    /\ exported' = SeenThroughExport(exported, a)
    /\ err' = e
    /\ lastOp' = op
    /\ UNCHANGED <<b, ab, steps, pc, pre, restored, log, nbuilds, arg, given, parse, builders>>

\* "agent.name = value"
AgentSetName ==
    \E value \in {"A", "Z"} :
        LET res == PersonaAgent_name_setter(agent, value)
        IN AgentCall("name_setter", res[1], res[2])

AgentUpdateGoal ==
    \E g \in {<< >>, <<"G2">>} : AgentCall("update_goal", PersonaAgent_update_goal(agent, g), NoError)

AgentAddConstraint(c) ==
    LET res == PersonaAgent_add_constraint(agent, c)
    IN AgentCall("add_constraint", res[1], res[2])

AgentRemoveConstraint(c) ==
    AgentCall("remove_constraint", PersonaAgent_remove_constraint(agent, c), NoError)

AgentUpdateMetadata(m) ==
    LET res == PersonaAgent_update_metadata(agent, m.isDict, m.d)
    IN AgentCall("update_metadata", res[1], res[2])

\* "m = agent.metadata; m[key] = value": the property returns a copy
AgentWriteMetadataCopy ==
    \E m \in {[modified |-> "True"]} :
        LET copy == DictUpdate(agent.metadata, m)
        IN AgentCall("write_metadata_copy", agent, NoError)

\* "d = agent.to_dict(); ...; d["metadata"][key] = value" on the mapping
\* exported earlier: d["metadata"] is the agent's _metadata
AgentWriteExportedMetadata ==
    /\ exported.exists
    /\ \E m \in {[modified |-> "True"]} :
           AgentCall("write_exported_metadata",
                     [agent EXCEPT !.metadata = DictUpdate(exported.metadata, m)], NoError)

AgentToDict ==
    /\ agent.exists
    /\ exported' = PersonaAgent_to_dict(agent)
    /\ err' = NoError
    /\ lastOp' = "to_dict"
    /\ UNCHANGED <<b, ab, steps, pc, pre, agent, restored, log, nops, nbuilds, arg, given, parse, builders>>

InitAgent ==
    /\ b = PersonaBuilder_init(NONE)
    /\ ab = AsyncPersonaBuilder_init(NONE)
    /\ steps = << >>
    /\ pc = Idle
    /\ pre = AsyncPersonaBuilder_init(NONE)
    /\ given \in AgentArgs
    /\ agent = PersonaAgent_init(given)
    /\ exported = NoDict
    /\ restored = NoAgent
    /\ err = NoError
    /\ lastOp = "init"
    /\ arg = NoArg
    /\ log = << >>
    /\ parse = NoParse
    /\ builders = FreshBuilders
    /\ nops = 0
    /\ nbuilds = 0

NextAgent ==
    \/ AgentSetName \/ AgentUpdateGoal
    \/ (\E c \in {"c1", "c3"} : AgentAddConstraint(c))
    \/ (\E c \in {"c1", "c9"} : AgentRemoveConstraint(c))
    \/ (\E m \in MetadataArgs : AgentUpdateMetadata(m))
    \/ AgentToDict \/ AgentWriteMetadataCopy \/ AgentWriteExportedMetadata

SpecAgent == InitAgent /\ [][NextAgent]_vars

----------------------------------------------------------------------------
(* A builder and a directly constructed agent side by side: the operations  *)
(* that exist on both objects (update_metadata, add_constraint), with the   *)
(* builder's bulk constraints() and the agent's remove_constraint.          *)

InitPair ==
    /\ b = PersonaBuilder_init("B")
    /\ ab = AsyncPersonaBuilder_init(NONE)
    /\ steps = << >>
    /\ pc = Idle
    /\ pre = AsyncPersonaBuilder_init(NONE)
    /\ given \in AgentArgs
    /\ agent = PersonaAgent_init(given)
    /\ exported = NoDict
    /\ restored = NoAgent
    /\ err = NoError
    /\ lastOp = "init"
    /\ arg = NoArg
    /\ log = << >>
    /\ parse = NoParse
    /\ builders = FreshBuilders
    /\ nops = 0
    /\ nbuilds = 0

NextPair ==
    \/ (\E m \in MetadataArgs : UpdateMetadata(m))
    \/ (\E c \in {"", "c1", "c3"} : AddConstraint(c))
    \/ (\E c \in ConstraintValues : Constraints(c))
    \/ (\E m \in MetadataArgs : AgentUpdateMetadata(m))
    \/ (\E c \in {"", "c1", "c3"} : AgentAddConstraint(c))
    \/ (\E c \in {"c1", "c9"} : AgentRemoveConstraint(c))

SpecPair == InitPair /\ [][NextPair]_vars

----------------------------------------------------------------------------
(* The two builders side by side, and the calls that set and extend the     *)
(* goal: immediately on the PersonaBuilder, at build() on the               *)
(* AsyncPersonaBuilder.                                                     *)

InitGoal ==
    /\ b = PersonaBuilder_init("B")
    /\ ab = AsyncPersonaBuilder_init("B")
    /\ steps = << >>
    /\ pc = Idle
    /\ pre = AsyncPersonaBuilder_init(NONE)
    /\ agent = NoAgent
    /\ exported = NoDict
    /\ restored = NoAgent
    /\ err = NoError
    /\ lastOp = "init"
    /\ arg = NoArg
    /\ given = NoArgs
    /\ log = << >>
    /\ parse = NoParse
    /\ builders = FreshBuilders
    /\ nops = 0
    /\ nbuilds = 0

NextGoal ==
    \/ Goal \/ (\E x \in {<<"X">>, <<"Y">>} : ExtendGoal(x))
    \/ AsyncGoal \/ (\E x \in {<<"X">>, <<"Y">>} : AsyncExtendGoal(x)) \/ AsyncBuildStart

SpecGoal == InitGoal /\ [][NextGoal]_vars

----------------------------------------------------------------------------
(* The Markdown parser: one document is drawn and given to                  *)
(* parse_persona_markdown, then loaded into the builder with with_markdown. *)

\* Bodies: none, a Backstory section, a Backstory section of blank lines,
\* Backstory followed by sections titled like front-matter keys, and those
\* sections alone
Bodies ==
    {<< >>,
     BackstoryBody,
     << [hdr |-> TRUE, s |-> "Backstory"], [hdr |-> FALSE, s |-> ""] >>,
     BackstoryBody \o
         << [hdr |-> TRUE, s |-> "Role"], [hdr |-> FALSE, s |-> "Body role"],
            [hdr |-> TRUE, s |-> "Goal"], [hdr |-> FALSE, s |-> "Body goal"],
            [hdr |-> TRUE, s |-> "Constraints"], [hdr |-> FALSE, s |-> "- body rule"] >>,
     << [hdr |-> TRUE, s |-> "Role"], [hdr |-> FALSE, s |-> "Body role"],
        [hdr |-> TRUE, s |-> "Goal"], [hdr |-> FALSE, s |-> "Body goal"] >>}

\* The documents: front matters with name, role, goal present or not (role
\* and goal also empty), constraints absent, a list or a str, the optional
\* keys all present or all absent, with and without keys that
\* parse_persona_markdown does not read, and one that is not readable YAML;
\* each with each body
ParseDocs ==
    {[NoDoc EXCEPT
         !.name = n, !.role = r, !.goal = g, !.has_constraints = c[1], !.constraints = c[2],
         !.llm_config = o[1], !.version = o[2], !.metadata = o[3], !.unknown = u,
         !.body = body] :
        n \in {NONE, "F"}, r \in {NONE, "", "Reviewer"},
        g \in {NoneText, << >>, <<"Review code">>},
        c \in {<<FALSE, CList(<< >>)>>, <<TRUE, CList(<<"c3", "c4">>)>>,
               <<TRUE, CStr(<<"a", "b">>)>>},
        o \in {<<LNone, NONE, EmptyDict>>, <<LDict([model |-> "m3"]), "2.0", [team |-> "t"]>>},
        u \in {EmptyDict, [backstory |-> "Front-matter story", custom |-> "x"]},
        body \in Bodies}
    \cup {[NoDoc EXCEPT !.fm_ok = FALSE, !.body = body] : body \in Bodies}

ParseMarkdown ==
    /\ ~parse.done
    /\ \E doc \in ParseDocs :
           LET res == PersonaMarkdownParser_parse_persona_markdown(doc)
           IN /\ parse' = [done |-> TRUE, doc |-> doc, config |-> res[1], err |-> res[2],
                           warnings |-> res[3]]
              /\ err' = res[2]
              /\ log' = res[3]
    /\ lastOp' = "parse_persona_markdown"
    /\ UNCHANGED <<b, ab, steps, pc, pre, agent, exported, restored, arg, given, nops, nbuilds,
                   builders>>

\* b.with_markdown(content) with the document parsed before
LoadParsed ==
    /\ parse.done
    /\ WithMarkdown(parse.doc)

InitParse ==
    /\ b \in {PersonaBuilder_init(n) : n \in {NONE, "B"}}
    /\ ab = AsyncPersonaBuilder_init(NONE)
    /\ steps = << >>
    /\ pc = Idle
    /\ pre = AsyncPersonaBuilder_init(NONE)
    /\ agent = NoAgent
    /\ exported = NoDict
    /\ restored = NoAgent
    /\ err = NoError
    /\ lastOp = "init"
    /\ arg = NoArg
    /\ given = NoArgs
    /\ log = << >>
    /\ parse = NoParse
    /\ builders = FreshBuilders
    /\ nops = 0
    /\ nbuilds = 0

NextParse == ParseMarkdown \/ LoadParsed

SpecParse == InitParse /\ [][NextParse]_vars

----------------------------------------------------------------------------
(* Two AsyncPersonaBuilder instances, each with a caller of its own.  A     *)
(* build() runs without interruption up to its next "await", so the steps   *)
(* of the two build() calls interleave at their suspensions; a suspended    *)
(* build() may be cancelled there.                                          *)

\* Instance i took a step that left it as s1 and the list of its _steps as q1
InstanceStep(i, s1, q1) ==
    /\ builders' = [builders EXCEPT
                        !.of[i] = s1,
                        !.lists[builders.of[i].steps] = q1,
                        !.actor = i,
                        !.overlapped = @ \/ (s1.pc.awaiting
                                              /\ \E j \in {1, 2} \ {i} :
                                                     builders.of[j].pc.awaiting)]
    /\ UNCHANGED <<b, ab, steps, pc, pre, agent, exported, restored, err, lastOp, arg, given,
                   log, parse, nops, nbuilds>>

\* A fluent call on instance i records its closure func in the list of the instance
InstanceRecord(i, func, is_async) ==
    LET s == builders.of[i]
        q == builders.lists[s.steps]
    IN /\ s.pc.i = 0
       /\ Len(q) < MaxSteps
       /\ InstanceStep(i, s, IF is_async = 1 THEN AsyncPersonaBuilder_record_async(q, func)
                             ELSE AsyncPersonaBuilder_record_sync(q, func))

\* The instance s after its build() has run up to r over the list q: it
\* raised, or is suspended in "await func()", or validated and constructed
InstanceAdvance(s, r, q) ==
    IF r.err # NoError
    THEN [s EXCEPT !.ab = r.s, !.agent = r.a, !.pc = Idle, !.err = r.err, !.done = TRUE]
    ELSE IF r.i <= Len(q)
    THEN [s EXCEPT !.ab = r.s, !.agent = r.a, !.pc = [i |-> r.i, awaiting |-> TRUE]]
    ELSE LET res == AsyncPersonaBuilder_build_finish(r.s)
         IN [s EXCEPT !.ab = r.s, !.pc = Idle, !.err = res[2], !.done = TRUE,
                      !.agent = IF res[2] = NoError THEN res[1] ELSE r.a]

\* "await builder.build()" on instance i, up to its first suspension
InstanceBuildStart(i) ==
    LET s == builders.of[i]
        q == builders.lists[s.steps]
        s0 == [s EXCEPT !.nbuilds = @ + 1, !.done = FALSE, !.cancelled = FALSE, !.err = NoError,
                        !.start = [ab |-> s.ab, agent |-> s.agent, q |-> q]]
    IN /\ s.pc.i = 0
       /\ builders.of[1].nbuilds + builders.of[2].nbuilds < MaxBuilds
       /\ InstanceStep(i, InstanceAdvance(s0, RunLoop(s.ab, s.agent, q, 1), q), q)

\* The closure the build() of instance i awaits finishes; build() runs on
InstanceBuildResume(i) ==
    LET s == builders.of[i]
        q == builders.lists[s.steps]
        r == RunClosure(s.ab, s.agent, q[ExecOrder(q)[s.pc.i]])
    IN /\ s.pc.awaiting
       /\ InstanceStep(i, InstanceAdvance(s, IF r.err # NoError
                                             THEN [s |-> r.s, a |-> r.a, err |-> r.err, i |-> 0]
                                             ELSE RunLoop(r.s, r.a, q, s.pc.i + 1), q), q)

\* The suspended build() of instance i is cancelled: CancelledError is raised
\* at its "await" and leaves build()
InstanceBuildCancel(i) ==
    LET s == builders.of[i]
    IN /\ s.pc.awaiting
       /\ InstanceStep(i, [s EXCEPT !.pc = Idle, !.cancelled = TRUE,
                                    !.err = Raise("CancelledError", << >>)],
                       builders.lists[s.steps])

InitInstances ==
    /\ b = PersonaBuilder_init(NONE)
    /\ ab = AsyncPersonaBuilder_init(NONE)
    /\ steps = << >>
    /\ pc = Idle
    /\ pre = AsyncPersonaBuilder_init(NONE)
    /\ agent = NoAgent
    /\ exported = NoDict
    /\ restored = NoAgent
    /\ err = NoError
    /\ lastOp = "init"
    /\ arg = NoArg
    /\ given = NoArgs
    /\ log = << >>
    /\ parse = NoParse
    /\ builders = FreshBuilders
    /\ nops = 0
    /\ nbuilds = 0

\* The calls recorded: from_yaml of a file that loads, and add_constraint
\* with a constraint of the instance's own
NextInstances ==
    \E i \in {1, 2} :
        \/ \E file \in {y \in YamlFiles : y.loads} :
               InstanceRecord(i, [NoStep EXCEPT !.op = "load_from_yaml", !.file = file], 1)
        \/ InstanceRecord(i, [NoStep EXCEPT !.op = "add_constraint_impl",
                                            !.s = IF i = 1 THEN "c1" ELSE "c2"], 0)
        \/ InstanceBuildStart(i)
        \/ InstanceBuildResume(i)
        \/ InstanceBuildCancel(i)

SpecInstances == InitInstances /\ [][NextInstances]_vars

----------------------------------------------------------------------------
(* Properties of the immediate builder, checked under Spec *)

\* The rules of validation, in the order they are listed
Rules == <<"name", "role", "goal", "constraints", "llm_config">>

\* An llm_config that breaks the llm_config rule: set, not False, and not a
\* mapping or a mapping with neither 'model' nor 'config_list'
LlmRuleViolated(l) ==
    /\ l.t \notin {"none", "false"}
    /\ \/ l.t # "dict"
       \/ DOMAIN l.d \cap {"model", "config_list"} = {}

\* The rules a configuration violates
Violated(s) ==
    {r \in {"name"} : s.name \in {NONE, ""}}
    \cup {r \in {"role"} : s.role \in {NONE, ""}}
    \cup {r \in {"goal"} : s.goal \in {NoneText, << >>}}
    \cup {r \in {"constraints"} : s.constraints.items # << >> /\ ~s.constraints.isList}
    \cup {r \in {"llm_config"} : LlmRuleViolated(s.llm_config)}

\* The rule a line of a validation message reports
RuleOfLine(line) ==
    IF Len(line) < 2 \/ line[1] # "  - " THEN "?"
    ELSE CASE line[2] = "Persona name is required" -> "name"
           [] line[2] = "Role is required for persona '" -> "role"
           [] line[2] = "Goal is required for persona '" -> "goal"
           [] line[2] = "Constraints must be a list for persona '" -> "constraints"
           [] line[2] \in {"LLM config must be a dictionary for persona '",
                           "LLM config must contain 'config_list' or 'model' for persona '"}
                -> "llm_config"
           [] OTHER -> "?"

\* The rules of Rules that are in the set V, in the order of Rules
InOrder(V) == SelectSeq(Rules, LAMBDA r : r \in V)

FirstNonEmpty(names) ==
    LET given_names == SelectSeq(names, LAMBDA n : n \notin {NONE, ""})
    IN IF given_names = << >> THEN "unnamed_persona" ELSE given_names[1]

MarkdownLoads == {"with_markdown", "with_markdown_file", "from_markdown"}

C9_FromDictKeepsLlmConfig ==
    [][lastOp' = "from_dict" => b'.llm_config = b.llm_config]_vars

----------------------------------------------------------------------------
(* Properties of the deferred builder, checked under SpecAsync *)

\* The configuration after the closures q[k], ..., q[n] have been applied one
\* after another, in the order of the fluent calls, to configuration s (as far
\* as the first that raises)
RECURSIVE InCallOrder(_, _, _, _)
InCallOrder(s, q, k, n) ==
    IF k > n THEN s
    ELSE LET res == AsyncRunStep(s, q[k])
         IN IF res[2] # NoError THEN res[1] ELSE InCallOrder(res[1], q, k + 1, n)

\* build() has returned or raised
Finished == pc.i = 0 /\ lastOp = "build" /\ nbuilds > 0

IsList(c) == c.isList

\* C2 as the specification states it: every agent a build() returned has a
\* non-empty name, role and goal, constraints that are a list, and an
\* llm_config that is unset, False, or a mapping with 'model' or 'config_list'.
\* AsyncPersonaBuilder.validate has no rule for constraints and none for an
\* llm_config that is not a mapping.
C2_BuiltAgentIsValid ==
    agent.exists =>
        /\ agent.persona_name \notin {NONE, ""}
        /\ agent.role \notin {NONE, ""}
        /\ agent.goal \notin {NoneText, << >>}
        /\ IsList(agent.constraints)
        /\ ~LlmRuleViolated(agent.llm_config)

\* C4 as the specification states it: a build() that raised leaves the
\* configuration as it was when build() was called.  AsyncPersonaBuilder.build
\* runs the recorded closures on the builder itself before it validates.
C4_FailedBuildLeavesBuilder ==
    (Finished /\ err # NoError) => ab = pre

\* build() has ended in validate(): it returned, or raised the validation error
Validated ==
    /\ Finished
    /\ err = NoError \/ err.msg[1][1] = "Persona validation failed for '"

\* C8 as the specification states it, for AsyncPersonaBuilder.validate: an
\* llm_config violation is reported exactly when the value is set, is not
\* False, and is not a mapping or has neither 'model' nor 'config_list'.
C8_LlmRuleReportedExactly ==
    Validated =>
        (LlmRuleViolated(ab.llm_config)
            <=> /\ err.kind = "ValueError"
                /\ \E i \in 2..Len(err.msg) :
                       err.msg[i][2] =
                           "LLM config must contain one of ['config_list', 'model'] for persona '")

\* The fields of an agent that a round trip through its dictionary keeps
Persona(a) ==
    [name |-> a.persona_name, role |-> a.role, goal |-> a.goal, backstory |-> a.backstory,
     constraints |-> a.constraints, version |-> a.version, metadata |-> a.metadata]

\* C10 as the specification states it: to_dict() of a built agent, fed to
\* from_persona_dict, llm_config re-applied, build(): an agent with the same
\* name, role, goal, backstory, constraints, version and metadata.
C10_RoundTrip ==
    lastOp = "round_trip" => (restored.exists /\ Persona(restored) = Persona(agent))

----------------------------------------------------------------------------
(* Properties of a constructed PersonaAgent, checked under SpecAgent *)

\* C6: the name of a constructed agent is the name it was constructed with,
\* whatever calls were made on it since (name assignments, update_goal,
\* add_constraint, remove_constraint, update_metadata, to_dict), and an
\* assignment to agent.name raises the immutability error.
C6_NameIsImmutable ==
    /\ agent.exists => agent.persona_name = given.name
    /\ lastOp = "name_setter" =>
           err = Raise("AttributeError",
                       << <<"PersonaAgent name is immutable after construction">> >>)

\* An assignment of another name has been attempted on the agent named "A"
C6_Witness ==
    /\ lastOp = "name_setter"
    /\ err.kind = "AttributeError"
    /\ nops >= 2
    /\ agent.persona_name = "A"

\* SystemMessageComposer: the text composed from role, goal, backstory and
\* constraints (sections left out when their source is empty)
Composition(role, goal, backstory, constraints) ==
    << <<"# Role: ", role>>, << >>, <<"## Goal">>, goal >>
    \o (IF backstory \in {NoneText, << >>} THEN << >>
        ELSE << << >>, <<"## Background">>, backstory >>)
    \o (IF constraints.items = << >> THEN << >>
        ELSE << << >>, <<"## Constraints">> >>
             \o [i \in 1..Len(constraints.items) |-> <<"- ", constraints.items[i]>>])

\* C7: for an agent constructed without supplementary system_message text,
\* after any calls of update_goal, add_constraint and remove_constraint the
\* system message is the composition of the agent's current role, goal,
\* backstory and constraints.
C7_SystemMessageInStep ==
    (agent.exists /\ "system_message" \notin DOMAIN given.kwargs) =>
        agent.system_message =
            Composition(agent.role, agent.goal, agent.backstory, agent.constraints)

\* The goal has been updated and a constraint added or removed since on an
\* agent constructed without supplementary text
C7_Witness ==
    /\ agent.exists /\ "system_message" \notin DOMAIN given.kwargs
    /\ agent.goal = <<"G2">> /\ agent.constraints # given.constraints
    /\ lastOp \in {"add_constraint", "remove_constraint"}
    /\ agent.system_message[4] = <<"G2">>

----------------------------------------------------------------------------
(* Properties of the operations a builder and an agent both have, checked   *)
(* under SpecPair *)

\* The core fields of a builder, and of an agent
BuilderCore ==
    {"name", "role", "goal", "backstory", "constraints", "llm_config", "description", "version"}
AgentCore ==
    {"persona_name", "role", "goal", "backstory", "constraints", "llm_config", "description",
     "version"}

\* dict d1 is d0 shallow-merged with the mapping m: m's keys hold m's values,
\* d0's other keys hold their old values
ShallowMerged(d0, m, d1) ==
    /\ \A k \in DOMAIN m : k \in DOMAIN d1 /\ d1[k] = m[k]
    /\ \A k \in DOMAIN d0 \ DOMAIN m : k \in DOMAIN d1 /\ d1[k] = d0[k]

AddsAndReplaces(ignored) ==
    /\ \A c \in {"", "c1", "c3"} :
           /\ (AddConstraint(c) /\ b.constraints.isList) =>
                  /\ err'.kind = "none"
                  /\ b'.constraints =
                         IF InSeq(c, b.constraints.items) \/ c \in ignored THEN b.constraints
                         ELSE CList(Append(b.constraints.items, c))
           /\ AgentAddConstraint(c) =>
                  /\ err'.kind = "none"
                  /\ IF InSeq(c, agent.constraints.items)
                     THEN /\ agent'.constraints = agent.constraints
                          /\ agent'.system_message = agent.system_message
                     ELSE agent'.constraints = CList(Append(agent.constraints.items, c))
    /\ \A c \in ConstraintValues : Constraints(c) => b'.constraints = c

\* C18 as stated: add_constraint, on the builder and on the agent, does
\* nothing when the constraint is already in the list (on the agent the
\* system message stays too) and appends it at the end when it is absent;
\* constraints(list) replaces the whole list by its argument, duplicates
\* included.
C18_AddIsNoOpOnDuplicates == [][AddsAndReplaces({})]_vars

\* C18 amended: the same, except that the builder's add_constraint also does
\* nothing when the constraint is the empty string.
C18_AddIsNoOpOnDuplicatesAndEmpty == [][AddsAndReplaces({""})]_vars

\* The builder's list was set to one with a duplicate and "c3" was added to
\* it; "c3" was added to the agent's list, which has a duplicate too
C18_Witness ==
    /\ lastOp = "add_constraint"
    /\ b.constraints = CList(<<"c1", "c1", "c3">>)
    /\ agent.constraints = CList(<<"c1", "c2", "c1", "c3">>)

----------------------------------------------------------------------------
(* Properties of the agent's metadata, checked under SpecAgent *)

\* C12: the agent's metadata is written by update_metadata only: a write to
\* the mapping read from the metadata property, and every other step that is
\* not an update_metadata call on the agent, leaves agent.metadata as it was.
C12_MetadataWrittenByUpdateOnly ==
    [][lastOp' # "update_metadata" => agent'.metadata = agent.metadata]_vars

----------------------------------------------------------------------------
(* Properties of the Markdown parser, checked under SpecParse *)

\* The body has a Backstory section with a line that is not blank
HasBackstory(body) ==
    \E i \in 1..Len(body) :
        /\ body[i].hdr /\ body[i].s = "Backstory"
        /\ \E j \in (i + 1)..Len(body) :
               /\ body[j].s # ""
               /\ \A k \in (i + 1)..j : ~body[k].hdr

\* The required-field rules a document violates, in the order role, goal,
\* backstory, each as its message
RequiredMissing(doc) ==
    (IF doc.role \in {NONE, ""} THEN <<"'role' is required in frontmatter">> ELSE << >>)
    \o (IF doc.goal \in {NoneText, << >>} THEN <<"'goal' is required in frontmatter">>
        ELSE << >>)
    \o (IF ~HasBackstory(doc.body)
        THEN <<"'# Backstory' section is required in markdown content">> ELSE << >>)

\* The parse failed exactly when a required field is missing, with one error
\* that lists each missing field on a line of its own, in order; absent
\* constraints parsed to the empty list
RequiredFieldsChecked ==
    LET missing == RequiredMissing(parse.doc)
    IN /\ parse.err.kind # "none" <=> missing # << >>
       /\ missing # << >> =>
              /\ parse.err.kind = "ValueError"
              /\ Len(parse.err.msg) = Len(missing) + 1
              /\ \A i \in 1..Len(missing) : parse.err.msg[i + 1] = <<"  - ", missing[i]>>
       /\ (parse.err.kind = "none" /\ ~parse.doc.has_constraints) =>
              parse.config.constraints = CList(<< >>)

\* C13 as stated: parse_persona_markdown fails exactly when the front-matter
\* role or goal is missing or empty or the Backstory section is missing or
\* empty after trimming; the error lists every violated rule, one per line,
\* in the order role, goal, backstory; a missing constraints key is no error
\* and gives constraints == [].
C13_FailsExactlyOnRequiredFields == parse.done => RequiredFieldsChecked

\* C13 amended: the same, for a document whose front matter is readable YAML
\* and whose constraints key, when present, holds a list (the parser also
\* fails on unreadable front matter and on constraints that are not a list).
C13_RequiredFieldsOfReadableDocument ==
    (parse.done /\ parse.doc.fm_ok
        /\ (parse.doc.has_constraints => parse.doc.constraints.isList))
    => RequiredFieldsChecked

\* A readable document without a role and without a Backstory section but
\* with a goal has been parsed: the error has the two lines
C13_Witness ==
    /\ parse.done /\ parse.doc.fm_ok /\ ~parse.doc.has_constraints
    /\ parse.doc.role = NONE /\ parse.doc.goal = <<"Review code">> /\ parse.doc.body = << >>
    /\ Len(parse.err.msg) = 3

\* The front matter of a document
FrontMatterOf(doc) == [doc EXCEPT !.body = << >>]

\* The fields of a parsed configuration that come from the specification
SpecFields(config) ==
    <<config.name, config.role, config.goal, config.constraints, config.llm_config,
      config.version>>

KnownOf(doc) == [doc EXCEPT !.unknown = EmptyDict]

\* C15: top-level front-matter keys other than name, role, goal,
\* constraints, llm_config, version, metadata and description never reach
\* the builder: loading the document leaves the builder exactly as loading
\* any document that differs from it in such keys only, and none of these
\* keys is added to the builder's metadata or to its pass-through options.
C15_UnknownKeysIgnored ==
    [][lastOp' = "with_markdown" =>
          /\ \A doc \in ParseDocs :
                 KnownOf(doc) = KnownOf(parse.doc) =>
                     /\ b' = PersonaBuilder_with_markdown(b, doc)[1]
                     /\ err' = PersonaBuilder_with_markdown(b, doc)[2]
          /\ (DOMAIN b'.metadata \ DOMAIN b.metadata) \cap DOMAIN parse.doc.unknown = {}
          /\ b'.additional_kwargs = b.additional_kwargs]_vars

\* A document with keys the parser does not read, and with a metadata key,
\* has been loaded: the builder has the metadata and none of the other keys
C15_Witness ==
    /\ lastOp = "with_markdown" /\ err.kind = "none"
    /\ "custom" \in DOMAIN parse.doc.unknown
    /\ b.metadata = [team |-> "t"] /\ b.additional_kwargs = EmptyDict
    /\ b.role = "Reviewer"

----------------------------------------------------------------------------
(* Properties of the agent's system message and constraints, checked under  *)
(* SpecAgent *)

\* The lines of a message that are bullets
BulletLines(m) == {i \in 1..Len(m) : m[i] # << >> /\ m[i][1] = "- "}

\* The lines of a message that are the heading h
HeadingLines(m, h) == {i \in 1..Len(m) : m[i] = <<h>>}

\* C16: the composed system message follows the template: the role heading,
\* the Goal section, a Background section exactly when the backstory is not
\* empty, and a Constraints heading followed by one bullet per constraint in
\* input order exactly when the list is not empty (N constraints, N bullet
\* lines); it is a function of role, goal, backstory and constraints alone.
C16_CompositionFollowsTemplate ==
    agent.exists =>
        LET m == PersonaAgent_build_system_message(agent)
            items == agent.constraints.items
            N == Len(items)
            hasBackground == agent.backstory \notin {NoneText, << >>}
            base == IF hasBackground THEN 7 ELSE 4
        IN /\ Len(m) = base + (IF N > 0 THEN N + 2 ELSE 0)
           /\ m[1] = <<"# Role: ", agent.role>>
           /\ m[2] = << >> /\ m[3] = <<"## Goal">> /\ m[4] = agent.goal
           /\ HeadingLines(m, "## Background") = (IF hasBackground THEN {6} ELSE {})
           /\ hasBackground => m[5] = << >> /\ m[7] = agent.backstory
           /\ HeadingLines(m, "## Constraints") = (IF N > 0 THEN {base + 2} ELSE {})
           /\ N > 0 => m[base + 1] = << >>
           /\ BulletLines(m) = {base + 2 + i : i \in 1..N}
           /\ \A i \in 1..N : m[base + 2 + i] = <<"- ", items[i]>>
           /\ m = PersonaAgent_build_system_message(
                      [NoAgent EXCEPT !.role = agent.role, !.goal = agent.goal,
                                      !.backstory = agent.backstory,
                                      !.constraints = agent.constraints])

\* An agent with a backstory and four constraints, one of them twice
C16_Witness ==
    /\ agent.exists /\ agent.backstory = <<"Bk">>
    /\ agent.constraints.items = <<"c1", "c2", "c1", "c3">>
    /\ "system_message" \notin DOMAIN given.kwargs
    /\ Len(agent.system_message) = 13

----------------------------------------------------------------------------
(* Properties of extend_goal in both builders, checked under SpecGoal *)

\* Goal g extended by the addition x
Extended(g, x) ==
    IF g \in {NoneText, << >>} THEN x ELSE g \o <<". Additionally, ">> \o x

\* The goal after the recorded operations k, k + 1, ... of queue q have been
\* applied to goal g
RECURSIVE GoalAfter(_, _, _)
GoalAfter(g, q, k) ==
    IF k > Len(q) THEN g
    ELSE GoalAfter(IF q[k].op = "set_goal" THEN q[k].t
                   ELSE IF q[k].op = "extend_goal_impl" THEN Extended(g, q[k].t)
                   ELSE g,
                   q, k + 1)

\* C17: extend_goal(addition) turns a non-empty goal G into
\* "G. Additionally, {addition}" and any other goal into the addition, on the
\* PersonaBuilder at the call and on the AsyncPersonaBuilder when build()
\* runs the queue; successive extensions therefore add up in call order.
C17_ExtendGoalConcatenates ==
    [][/\ \A x \in {<<"X">>, <<"Y">>} : ExtendGoal(x) => b'.goal = Extended(b.goal, x)
       /\ Finished' => ab'.goal = GoalAfter(pre'.goal, steps', 1)]_vars

\* The immediate builder has extended the goal "G"; the deferred builder has
\* run the extensions X, Y twice, on no goal and then on the goal that gave
C17_Witness ==
    /\ b.goal = <<"G", ". Additionally, ", "Y">>
    /\ Finished /\ nbuilds = 2 /\ Len(steps) = 2
    /\ steps[1].op = "extend_goal_impl" /\ steps[2].op = "extend_goal_impl"
    /\ ab.goal = <<"X", ". Additionally, ", "Y", ". Additionally, ", "X", ". Additionally, ", "Y">>

\* The lines of a message that are the bullet of constraint c
BulletsOf(m, c) == {i \in 1..Len(m) : m[i] = <<"- ", c>>}

\* C19: after agent.remove_constraint(c), c is not in agent.constraints and
\* the system message has no bullet for c, whatever construction and calls
\* of add_constraint and remove_constraint came before; removing a constraint
\* that is not in the list raises nothing and changes neither the list nor
\* the system message.
C19_RemovedConstraintIsGone ==
    [][\A c \in {"c1", "c9"} :
          AgentRemoveConstraint(c) =>
              /\ err'.kind = "none"
              /\ ~InSeq(c, agent'.constraints.items)
              /\ BulletsOf(agent'.system_message, c) = {}
              /\ ~InSeq(c, agent.constraints.items) =>
                     /\ agent'.constraints = agent.constraints
                     /\ agent'.system_message = agent.system_message]_vars

----------------------------------------------------------------------------
(* Properties of the deferred builder's fluent calls, checked under SpecAsync *)

\* The fluent methods of the AsyncPersonaBuilder
AsyncFluentOps ==
    {"role", "goal", "backstory", "add_constraint", "constraints", "llm_config", "temperature",
     "description", "human_input_never", "human_input_always", "human_input_terminate",
     "kwargs", "extend_goal", "from_dict", "from_yaml"}

\* C20: a fluent call on the AsyncPersonaBuilder executes nothing: whatever
\* its argument it raises no error, leaves the builder's configuration (and
\* the agent built before) as they were, and appends exactly one operation to
\* the queue.
C20_FluentCallsOnlyRecord ==
    [][lastOp' \in AsyncFluentOps =>
          /\ ab' = ab
          /\ agent' = agent
          /\ err' = NoError
          /\ Len(steps') = Len(steps) + 1
          /\ SubSeq(steps', 1, Len(steps)) = steps]_vars

\* Before any build(), from_dict was called with a non-mapping after a
\* constraints call with a str: nothing was raised, both are in the queue and
\* the configuration is the constructor's
C20_Witness ==
    /\ lastOp = "from_dict" /\ nbuilds = 0 /\ err = NoError
    /\ Len(steps) = 2
    /\ steps[1].op = "set_constraints" /\ ~steps[1].c.isList
    /\ steps[2].op = "load_from_dict" /\ ~steps[2].cd.isDict
    /\ ab = AsyncPersonaBuilder_init("B")

----------------------------------------------------------------------------
(* Properties of the version of a Markdown document, checked under Spec *)

\* The version a document resolves to: its own, or today's date
ResolvedVersion(doc) == IF doc.version \in {NONE, ""} THEN TODAY ELSE doc.version

\* The missing-version diagnostics among the warnings of a call
VersionWarnings(warnings) ==
    SelectSeq(warnings, LAMBDA w : w[1] = "Version key missing for persona '")

\* A load of the document just returned: the builder has the resolved
\* version, and the load logged one missing-version diagnostic that gives
\* today's date when the document has no version, none when it has one
VersionLoaded(doc) ==
    err'.kind = "none" =>
        /\ b'.version = ResolvedVersion(doc)
        /\ Len(VersionWarnings(log')) = IF doc.version \in {NONE, ""} THEN 1 ELSE 0
        /\ \A i \in 1..Len(VersionWarnings(log')) :
               LET w == VersionWarnings(log')[i] IN w[Len(w)] = TODAY

\* C21: each load (with_markdown, with_markdown_file, from_markdown) that
\* returns sets the builder's version to today's date and logs exactly one
\* missing-version warning when the document's front matter has no version,
\* and keeps the document's version and logs no such warning when it has
\* one; build() gives the builder's version to the agent, no later call
\* changes the agent's version, and to_dict() reports it.
C21_MissingVersionDefaultsToToday ==
    [][/\ \A doc \in Docs : WithMarkdown(doc) => VersionLoaded(doc)
       /\ \A file \in Files :
              (WithMarkdownFile(file) \/ FromMarkdown(file)) => VersionLoaded(file.doc)
       /\ (lastOp' = "build" /\ err'.kind = "none") => agent'.version = b.version
       /\ (lastOp' # "build" /\ agent.exists) => agent'.version = agent.version
       /\ lastOp' = "round_trip" => exported'.version = agent.version]_vars

\* A document without a version was loaded from a file, the agent was built
\* and exported: the mapping has today's date
C21_Witness ==
    /\ lastOp = "round_trip" /\ arg.fallback = "S" /\ arg.front = NONE
    /\ b.version = TODAY /\ agent.version = TODAY /\ exported.version = TODAY

\* C22: the missing-version diagnostic of parse_persona_markdown names the
\* persona: by the front-matter name when the document has one, by the
\* literal "unknown" when it has none.
C22_DiagnosticNamesPersona ==
    parse.done =>
        \A i \in 1..Len(VersionWarnings(parse.warnings)) :
            VersionWarnings(parse.warnings)[i][2] =
                IF parse.doc.name = NONE THEN "unknown" ELSE parse.doc.name

----------------------------------------------------------------------------
(* The two builders compared, checked under SpecAsync *)

\* The recorded operations that PersonaBuilder offers under the same name
SharedOps ==
    {"set_role", "set_goal", "set_backstory", "add_constraint_impl", "set_constraints",
     "set_llm_config", "set_temperature", "set_description", "extend_goal_impl",
     "load_from_dict", "set_human_input_never", "set_human_input_always",
     "set_human_input_terminate"}

\* The PersonaBuilder call with the name and argument of the recorded call f
ImmediateCall(s, f) ==
    CASE f.op = "set_role" -> PersonaBuilder_role(s, f.s)
      [] f.op = "set_goal" -> PersonaBuilder_goal(s, f.t)
      [] f.op = "set_backstory" -> PersonaBuilder_backstory(s, f.t)
      [] f.op = "add_constraint_impl" -> PersonaBuilder_add_constraint(s, f.s)
      [] f.op = "set_constraints" -> PersonaBuilder_constraints(s, f.c)
      [] f.op = "set_llm_config" -> PersonaBuilder_llm_config(s, f.l)
      [] f.op = "set_temperature" -> PersonaBuilder_temperature(s, f.s)
      [] f.op = "set_description" -> PersonaBuilder_description(s, f.t)
      [] f.op = "extend_goal_impl" -> PersonaBuilder_extend_goal(s, f.t)
      [] f.op = "load_from_dict" -> PersonaBuilder_from_dict(s, f.cd)
      [] f.op = "set_human_input_never" -> PersonaBuilder_human_input_mode(s, "NEVER")
      [] f.op = "set_human_input_always" -> PersonaBuilder_human_input_mode(s, "ALWAYS")
      [] f.op = "set_human_input_terminate" -> PersonaBuilder_human_input_mode(s, "TERMINATE")

\* The same calls made one after another on a PersonaBuilder, from call k
\* on, then build(): [agent, error]; a call that raises ends the chain
RECURSIVE ImmediateMode(_, _, _)
ImmediateMode(s, q, k) ==
    IF k > Len(q) THEN PersonaBuilder_build(s)
    ELSE LET res == ImmediateCall(s, q[k])
         IN IF res[2] # NoError THEN <<NoAgent, res[2]>> ELSE ImmediateMode(res[1], q, k + 1)

\* The fields of an agent the two builders are compared on
Built(a) ==
    [name |-> a.persona_name, role |-> a.role, goal |-> a.goal, backstory |-> a.backstory,
     constraints |-> a.constraints, description |-> a.description, version |-> a.version,
     metadata |-> a.metadata, llm_config |-> a.llm_config]

\* C23: for every sequence of fluent calls that both builders offer,
\* followed by build(), an AsyncPersonaBuilder and a PersonaBuilder
\* constructed with the same name both fail, or both return agents with the
\* same name, role, goal, backstory, constraints, description, version,
\* metadata and llm_config.
C23_BothDisciplinesAgree ==
    (Finished /\ nbuilds = 1 /\ \A k \in 1..Len(steps) : steps[k].op \in SharedOps) =>
        LET immediate == ImmediateMode(PersonaBuilder_init(ab.name), steps, 1)
        IN /\ err.kind # "none" <=> immediate[2].kind # "none"
           /\ err.kind = "none" => Built(agent) = Built(immediate[1])

\* The fields of an agent that two builds of one builder are compared on
Rebuilt(a) ==
    [role |-> a.role, goal |-> a.goal, backstory |-> a.backstory,
     constraints |-> a.constraints, llm_config |-> a.llm_config,
     description |-> a.description]

\* C24: build() called again on an AsyncPersonaBuilder right after a build()
\* that returned, with no fluent call in between, returns an agent with the
\* same role, goal, backstory, constraints, llm_config and description as
\* the first (a recorded extend_goal is applied once, not once per build).
C24_SecondBuildRepeatsFirst ==
    [][(Finished /\ err = NoError /\ nbuilds' = nbuilds + 1 /\ pc'.i = 0 /\ err' = NoError)
          => Rebuilt(agent') = Rebuilt(agent)]_vars

----------------------------------------------------------------------------
(* The agent and the builder that built it, checked under Spec *)

\* The state of an agent that calls on other objects are compared on
Owned(a) ==
    [constraints |-> a.constraints, metadata |-> a.metadata, llm_config |-> a.llm_config,
     system_message |-> a.system_message]

\* C25: once build() has returned an agent, no later call on the builder
\* (a fluent call, a load, validate, another build) changes that agent's
\* constraints, metadata, llm_config or system message.
C25_AgentSharesNothingWithBuilder ==
    [][(agent.exists /\ ~(lastOp' = "build" /\ err'.kind = "none"))
          => Owned(agent') = Owned(agent)]_vars

----------------------------------------------------------------------------
(* The supplementary text of an agent, checked under SpecAgent *)

\* C26: the system message of an agent constructed with supplementary text
\* (system_message=T) is the composed persona text, a blank line, the
\* heading "Additional Instructions:" and T, after construction and after
\* every later update_goal, add_constraint and remove_constraint.
C26_SupplementaryTextStays ==
    (agent.exists /\ "system_message" \in DOMAIN given.kwargs) =>
        agent.system_message =
            PersonaAgent_build_system_message(agent)
            \o << << >>, <<"Additional Instructions:">>, <<given.kwargs["system_message"]>> >>

----------------------------------------------------------------------------
(* The builder's name, checked under Spec *)

\* C27: while a PersonaBuilder's name is non-empty, with_markdown,
\* with_markdown_file, from_dict and update_metadata leave it as it is,
\* whatever name the document, the dictionary or the metadata mapping
\* carries, and so does every other call on that builder except set_name.
\* (from_markdown is a class method: it returns another builder.)
C27_NameKeptByLoads ==
    [][(TruthyStr(b.name) /\ lastOp' \notin {"set_name", "from_markdown"})
          => b'.name = b.name]_vars

\* A builder named "B" loaded a dictionary with the name "D" and the role
\* "R2", and kept its name
C27_Witness ==
    /\ lastOp = "from_dict" /\ err.kind = "none"
    /\ b.role = "R2" /\ b.metadata = [owner |-> "o"]
    /\ b.name = "B"

----------------------------------------------------------------------------
(* Fluent calls after a Markdown load, checked under Spec *)

\* The constraints of a document: its front-matter list, else the empty list
DocConstraints(doc) == IF doc.has_constraints THEN doc.constraints ELSE CList(<< >>)

\* c1 is the list c0 followed by c, or c0 itself when c is in it already
Followed(c0, c, c1) == c1 = IF InSeq(c, c0.items) THEN c0 ELSE CList(c0.items \o <<c>>)

\* l1 is the mapping l0 (empty when l0 is unset or False) with the key
\* 'temperature' set to t and every other key as in l0
KeptWithTemperature(l0, t, l1) ==
    /\ l1.t = "dict"
    /\ DOMAIN l1.d = DOMAIN l0.d \cup {"temperature"}
    /\ l1.d["temperature"] = t
    /\ \A k \in DOMAIN l0.d \ {"temperature"} : l1.d[k] = l0.d[k]

----------------------------------------------------------------------------
(* Two instances interleaved, checked under SpecInstances *)

\* build() run on its own, without suspension by anyone else's steps, from
\* closure k of the queue q on: the configuration it leaves, the agent it
\* returns (a the agent built before) and the error it raises
RECURSIVE Alone(_, _, _, _)
Alone(s, a, q, k) ==
    IF k > Len(q)
    THEN LET res == AsyncPersonaBuilder_build_finish(s)
         IN [s |-> s, agent |-> IF res[2] = NoError THEN res[1] ELSE a, err |-> res[2]]
    ELSE LET r == RunClosure(s, a, q[ExecOrder(q)[k]])
         IN IF r.err # NoError THEN [s |-> r.s, agent |-> r.a, err |-> r.err]
            ELSE Alone(r.s, r.a, q, k + 1)

\* C30: whatever the interleaving of the two instances' steps, and whether
\* or not a build() of the other instance was cancelled part-way, a build()
\* that has ended returned the agent (or raised the error) and left the
\* configuration that it does when it runs alone from where it started, and
\* a step of one instance changes neither the other instance nor the list
\* of its recorded operations.
C30_InstancesDoNotInterfere ==
    [][/\ \A i \in {1, 2} :
              builders'.of[i].done =>
                  LET s == builders'.of[i]
                      alone == Alone(s.start.ab, s.start.agent, s.start.q, 1)
                  IN s.ab = alone.s /\ s.agent = alone.agent /\ s.err = alone.err
       /\ \A j \in {1, 2} \ {builders'.actor} :
              /\ builders'.of[j] = builders.of[j]
              /\ builders'.lists[builders.of[j].steps] = builders.lists[builders.of[j].steps]]_vars

\* The two build() calls were suspended at the same time, the build() of
\* instance 2 was cancelled there, and the build() of instance 1 returned
\* its agent with the constraint of instance 1 only
C30_Witness ==
    /\ builders.overlapped
    /\ builders.of[2].cancelled
    /\ builders.of[1].done /\ builders.of[1].agent.exists
    /\ builders.of[1].agent.constraints = CList(<<"c3", "c1">>)

====
